---- MODULE Spec2Model ----
(***************************************************************************)
(* A model of the path tracer of Raytracing_HPC: the vector algebra, the   *)
(* geometric primitives (Sphere, AxisAlignedRect, Box, HittableList), the  *)
(* materials (Matte, Reflective, Transparent), the direct-lighting         *)
(* evaluator, the recursive path integrator and the tone mapping.          *)
(*                                                                         *)
(* Numbers.  A C++ double is modelled as an exact rational [n, d] in       *)
(* lowest terms with d > 0.  Every operation is the exact operation on     *)
(* rationals; IEEE rounding and the infinities are not modelled, so the    *)
(* inputs are drawn from grids on which every square root the code takes   *)
(* is rational and no denominator is zero.  NaN appears in two places      *)
(* only: as the square root of a negative number and as the unit vector    *)
(* of the zero vector.  A statement checked here is a statement about the  *)
(* code's arithmetic read over the reals.                                  *)
(***************************************************************************)
EXTENDS Integers, Sequences, FiniteSets, TLC

VARIABLES
    pc,              \* position of the modelled call: "call", "done", ...
    ray,             \* the ray argument (origin, direction)
    min_distance,    \* hit: lower end of the accepted range
    max_distance,    \* hit: upper end of the accepted range
    objects,         \* HittableList::objects, the scene geometry
    lights,          \* Scene::lights
    record,          \* the caller's HitRecord
    hit_anything,    \* the value returned by hit
    material,        \* the material whose scatter is called
    scatter_record,  \* the caller's ScatterRecord
    did_return,      \* the value returned by scatter
    draws,           \* the values random_double() returned during the call
    depth,           \* calculate_ray_color: remaining depth of the active call
    frames,          \* calculate_ray_color: stack of suspended calls
    color,           \* the Color returned by the finished call
    image_buffer,    \* write_color: the byte buffer
    config,          \* the RenderConfig of the run
    camera,          \* the Camera of the run
    max_depth,       \* the depth budget handed to render_image
    row,             \* render_image: the row being rendered
    col,             \* render_image: the column being rendered
    sample,          \* render_pixel: the index of the next sample
    accumulated_color, \* render_pixel: the sum of the samples so far
    rendered,        \* history: the pixels render_image has rendered, in order
    traced,          \* history: the rays the active render_pixel has traced
    hit_queries,     \* history: scene.objects.hit calls of the traced ray
    lighting_calls,  \* history: compute_diffuse_lighting calls of the traced ray
    build,           \* the program whose main is running
    written_files,   \* the files save_image has written, by path
    exit_code,       \* the value main returned
    fuzz,            \* the fuzz argument the Reflective was built from
    generator        \* the std::mt19937 of Utils.cpp, by the values it returns

vars ==
    << pc, ray, min_distance, max_distance, objects, lights, record,
       hit_anything, material, scatter_record, did_return, draws, depth,
       frames, color, image_buffer, config, camera, max_depth, row, col,
       sample, accumulated_color, rendered, traced, hit_queries,
       lighting_calls, build, written_files, exit_code, fuzz,
       generator >>

----------------------------------------------------------------------------
(* Exact rational arithmetic standing for double.                          *)

Abs(i) ==
    IF i < 0 THEN -i ELSE i

RECURSIVE GCD(_, _)
GCD(a, b) ==
    IF b = 0 THEN a ELSE GCD(b, a % b)

\* n/d with the common factor g of n and d taken out, the sign carried by n.
Lowest(n, d, g) ==
    IF d < 0 THEN [n |-> -(n \div g), d |-> -(d \div g)]
    ELSE [n |-> n \div g, d |-> d \div g]

\* The rational n/d in lowest terms, d > 0.
R(n, d) ==
    Lowest(n, d, GCD(Abs(n), Abs(d)))

I(n) ==
    [n |-> n, d |-> 1]

Zero ==
    I(0)

One ==
    I(1)

RNeg(x) ==
    [n |-> -x.n, d |-> x.d]

\* x + y over the least common denominator, g the common factor of the two.
AddOver(x, y, g) ==
    R(x.n * (y.d \div g) + y.n * (x.d \div g), (x.d \div g) * y.d)

RAdd(x, y) ==
    IF x.n = 0 THEN y
    ELSE IF y.n = 0 THEN x
    ELSE AddOver(x, y, GCD(x.d, y.d))

RSub(x, y) ==
    RAdd(x, RNeg(y))

\* x * y with the cross factors g1 of (x.n, y.d) and g2 of (y.n, x.d) taken
\* out before the products are formed.
MulOver(x, y, g1, g2) ==
    R((x.n \div g1) * (y.n \div g2), (x.d \div g2) * (y.d \div g1))

RMul(x, y) ==
    IF x.n = 0 \/ y.n = 0 THEN Zero
    ELSE MulOver(x, y, GCD(Abs(x.n), y.d), GCD(Abs(y.n), x.d))

\* x / y for y # 0.
RDiv(x, y) ==
    RMul(x, R(y.d, y.n))

\* x < y for x and y of integer parts qx and qy: decided on the integer
\* parts first so that a large bound such as max_hit_distance never enters a
\* product.
LtFrom(x, y, qx, qy) ==
    IF qx # qy THEN qx < qy
    ELSE (x.n - qx * x.d) * y.d < (y.n - qy * y.d) * x.d

RLt(x, y) ==
    LtFrom(x, y, x.n \div x.d, y.n \div y.d)

RLe(x, y) ==
    ~RLt(y, x)

RAbs(x) ==
    [n |-> Abs(x.n), d |-> x.d]

RMin(x, y) ==
    IF RLt(y, x) THEN y ELSE x

\* Floor of the square root of a natural number.
ISqrt(n) ==
    IF n <= 0 THEN 0
    ELSE CHOOSE k \in 1..n : k <= n \div k /\ (k + 1) > n \div (k + 1)

IsSquare(n) ==
    n >= 0 /\ ISqrt(n) * ISqrt(n) = n

\* x is the square of a rational.
RIsSquare(x) ==
    IsSquare(x.n) /\ IsSquare(x.d)

\* A double that is not a number: std::sqrt of a negative argument,
\* 0.0 * (1.0 / 0.0).  The arithmetic above is not defined on it.
NaN ==
    [n |-> 0, d |-> 0]

\* std::sqrt.  NaN below zero; exact on the squares of rationals, which are
\* the only other arguments the drawn inputs lead to; any other argument is
\* rounded down to a multiple of 1/100.
RSqrt(x) ==
    IF x.n < 0 THEN NaN
    ELSE IF RIsSquare(x) THEN [n |-> ISqrt(x.n), d |-> ISqrt(x.d)]
    ELSE R(ISqrt((x.n * 10000) \div x.d), 100)

\* The doubles 1.0 / 0.0 and -1.0 / 0.0.
Inf ==
    [n |-> 1, d |-> 0]

NegInf ==
    [n |-> -1, d |-> 0]

IsFinite(x) ==
    x.d # 0

\* x / y and x * y and x + y of doubles that may be infinite or NaN.  A
\* finite value over zero is an infinity of its sign, zero over zero is NaN,
\* an infinity times zero is NaN, and so is the sum of the two infinities.
EDiv(x, y) ==
    IF x = NaN \/ y = NaN THEN NaN
    ELSE IF ~IsFinite(x) THEN (IF ~IsFinite(y) THEN NaN
                               ELSE IF (x.n < 0) = (y.n < 0) THEN Inf
                               ELSE NegInf)
    ELSE IF ~IsFinite(y) THEN Zero
    ELSE IF y # Zero THEN RDiv(x, y)
    ELSE IF x = Zero THEN NaN
    ELSE IF x.n > 0 THEN Inf
    ELSE NegInf

EMul(x, y) ==
    IF x = NaN \/ y = NaN THEN NaN
    ELSE IF IsFinite(x) /\ IsFinite(y) THEN RMul(x, y)
    ELSE IF x = Zero \/ y = Zero THEN NaN
    ELSE IF (x.n < 0) = (y.n < 0) THEN Inf
    ELSE NegInf

EAdd(x, y) ==
    IF x = NaN \/ y = NaN THEN NaN
    ELSE IF IsFinite(x) /\ IsFinite(y) THEN RAdd(x, y)
    ELSE IF IsFinite(y) THEN x
    ELSE IF IsFinite(x) THEN y
    ELSE IF x = y THEN x
    ELSE NaN

\* A local variable of a C++ function: its initialiser is evaluated where
\* the variable is declared, and the rest of the function reads the value.
Local(initialiser, Rest(_)) ==
    CHOOSE result \in {Rest(value) : value \in {initialiser}} : TRUE

----------------------------------------------------------------------------
(* Vec3: three doubles used as point, direction or colour.                 *)

Vec3(x, y, z) ==
    [x |-> x, y |-> y, z |-> z]

\* A vector with integer components.
IVec(x, y, z) ==
    Vec3(I(x), I(y), I(z))

\* Vec3::component, axis given as "X", "Y" or anything else for Z.
component(v, axis) ==
    CASE axis = "X" -> v.x
      [] axis = "Y" -> v.y
      [] OTHER -> v.z

negate(v) ==
    Vec3(RNeg(v.x), RNeg(v.y), RNeg(v.z))

length_squared(v) ==
    RAdd(RAdd(RMul(v.x, v.x), RMul(v.y, v.y)), RMul(v.z, v.z))

length(v) ==
    RSqrt(length_squared(v))

\* operator+(Vec3, Vec3)
VAdd(a, b) ==
    Vec3(RAdd(a.x, b.x), RAdd(a.y, b.y), RAdd(a.z, b.z))

\* operator-(Vec3, Vec3)
VSub(a, b) ==
    Vec3(RSub(a.x, b.x), RSub(a.y, b.y), RSub(a.z, b.z))

\* operator*(Vec3, Vec3), the component-wise product
VMul(a, b) ==
    Vec3(RMul(a.x, b.x), RMul(a.y, b.y), RMul(a.z, b.z))

\* operator*(double, Vec3)
VScale(s, v) ==
    Vec3(RMul(s, v.x), RMul(s, v.y), RMul(s, v.z))

\* operator/(Vec3, double): the vector scaled by 1.0 / divisor
VDiv(v, divisor) ==
    VScale(RDiv(One, divisor), v)

dot(a, b) ==
    RAdd(RAdd(RMul(a.x, b.x), RMul(a.y, b.y)), RMul(a.z, b.z))

cross(a, b) ==
    Vec3(RSub(RMul(a.y, b.z), RMul(a.z, b.y)),
         RSub(RMul(a.z, b.x), RMul(a.x, b.z)),
         RSub(RMul(a.x, b.y), RMul(a.y, b.x)))

\* unit_vector: v / v.length(), which is NaN in every component for the
\* zero vector.
unit_vector(v) ==
    IF v = IVec(0, 0, 0) THEN Vec3(NaN, NaN, NaN)
    ELSE Local(length(v), LAMBDA len : VDiv(v, len))

\* The length of v is rational and not zero: unit_vector(v) is exact.
HasUnit(v) ==
    /\ RIsSquare(length_squared(v))
    /\ length_squared(v) # Zero

ZeroVec ==
    IVec(0, 0, 0)

\* Every component is a finite double.
IsFiniteVec(v) ==
    IsFinite(v.x) /\ IsFinite(v.y) /\ IsFinite(v.z)

\* operator+, operator- and scale_factor * vector on components that may be
\* infinite or NaN.
EVAdd(a, b) ==
    IF IsFiniteVec(a) /\ IsFiniteVec(b) THEN VAdd(a, b)
    ELSE Vec3(EAdd(a.x, b.x), EAdd(a.y, b.y), EAdd(a.z, b.z))

EVSub(a, b) ==
    EVAdd(a, negate(b))

EVScale(s, v) ==
    IF IsFinite(s) /\ IsFiniteVec(v) THEN VScale(s, v)
    ELSE Vec3(EMul(s, v.x), EMul(s, v.y), EMul(s, v.z))

----------------------------------------------------------------------------
(* Ray                                                                     *)

Ray(origin, direction) ==
    [origin |-> origin, direction |-> direction]

\* Ray::at
at(r, distance) ==
    VAdd(r.origin, VScale(distance, r.direction))

----------------------------------------------------------------------------
(* HitRecord and the primitives                                            *)

NullMaterial ==
    [kind |-> "null"]

\* A default-constructed HitRecord.  distance_from_ray and is_front_face are
\* not initialised by the constructor; no code reads them before a hit has
\* assigned them, so a fixed placeholder stands for the indeterminate value.
DefaultHitRecord ==
    [hit_point |-> ZeroVec, surface_normal |-> ZeroVec,
     distance_from_ray |-> Zero, is_front_face |-> FALSE,
     object_color |-> ZeroVec, material_ptr |-> NullMaterial]

\* HitRecord::set_face_normal with the front-face test inverted.
set_face_normal_inverted(rec, r, outward_normal) ==
    Local(RLt(Zero, dot(r.direction, outward_normal)), LAMBDA front :
    [rec EXCEPT !.is_front_face = front,
                !.surface_normal =
                    IF front THEN outward_normal ELSE negate(outward_normal)])

\* HitRecord::set_face_normal
set_face_normal(rec, r, outward_normal) ==
    Local(RLt(dot(r.direction, outward_normal), Zero), LAMBDA front :
    [rec EXCEPT !.is_front_face = front,
                !.surface_normal =
                    IF front THEN outward_normal ELSE negate(outward_normal)])

Sphere(center, sphere_radius, mat) ==
    [kind |-> "Sphere", center_position |-> center, radius |-> sphere_radius,
     material_ptr |-> mat]

\* The coefficients of the quadratic Sphere::hit solves.
quadratic_a(s, r) ==
    length_squared(r.direction)

quadratic_half_b(s, r) ==
    dot(VSub(r.origin, s.center_position), r.direction)

quadratic_c(s, r) ==
    RSub(length_squared(VSub(r.origin, s.center_position)),
         RMul(s.radius, s.radius))

discriminant(s, r) ==
    RSub(RMul(quadratic_half_b(s, r), quadratic_half_b(s, r)),
         RMul(quadratic_a(s, r), quadratic_c(s, r)))

\* Sphere::hit with the surface normal left undivided by the radius.
SphereHitRawNormal(s, r, tmin, tmax, rec) ==
    Local(discriminant(s, r), LAMBDA disc :
    IF RLt(disc, Zero) THEN [hit |-> FALSE, record |-> rec]
    ELSE
    Local(RSqrt(disc), LAMBDA sqrt_discriminant :
    Local(RDiv(RSub(RNeg(quadratic_half_b(s, r)), sqrt_discriminant),
               quadratic_a(s, r)), LAMBDA first_tried :
    Local(IF RLt(first_tried, tmin) \/ RLt(tmax, first_tried)
          THEN RDiv(RAdd(RNeg(quadratic_half_b(s, r)), sqrt_discriminant),
                    quadratic_a(s, r))
          ELSE first_tried, LAMBDA intersection_distance :
    IF RLt(intersection_distance, tmin) \/ RLt(tmax, intersection_distance)
    THEN [hit |-> FALSE, record |-> rec]
    ELSE
    Local(at(r, intersection_distance), LAMBDA p :
    [hit |-> TRUE,
     record |-> set_face_normal(
         [rec EXCEPT !.distance_from_ray = intersection_distance,
                     !.hit_point = p,
                     !.material_ptr = s.material_ptr],
         r, VSub(p, s.center_position))])))))

\* Sphere::hit trying the farther intersection first.
SphereHitFartherFirst(s, r, tmin, tmax, rec) ==
    Local(discriminant(s, r), LAMBDA disc :
    IF RLt(disc, Zero) THEN [hit |-> FALSE, record |-> rec]
    ELSE
    Local(RSqrt(disc), LAMBDA sqrt_discriminant :
    Local(RDiv(RAdd(RNeg(quadratic_half_b(s, r)), sqrt_discriminant),
               quadratic_a(s, r)), LAMBDA first_tried :
    Local(IF RLt(first_tried, tmin) \/ RLt(tmax, first_tried)
          THEN RDiv(RSub(RNeg(quadratic_half_b(s, r)), sqrt_discriminant),
                    quadratic_a(s, r))
          ELSE first_tried, LAMBDA intersection_distance :
    IF RLt(intersection_distance, tmin) \/ RLt(tmax, intersection_distance)
    THEN [hit |-> FALSE, record |-> rec]
    ELSE
    Local(at(r, intersection_distance), LAMBDA p :
    [hit |-> TRUE,
     record |-> set_face_normal(
         [rec EXCEPT !.distance_from_ray = intersection_distance,
                     !.hit_point = p,
                     !.material_ptr = s.material_ptr],
         r, VDiv(VSub(p, s.center_position), s.radius))])))))

\* Sphere::hit.  The result is the returned flag and the record as the call
\* leaves it: the closer intersection is tried first, the farther one only
\* when the closer one is outside [tmin, tmax].
SphereHit(s, r, tmin, tmax, rec) ==
    Local(discriminant(s, r), LAMBDA disc :
    IF RLt(disc, Zero) THEN [hit |-> FALSE, record |-> rec]
    ELSE
    Local(RSqrt(disc), LAMBDA sqrt_discriminant :
    Local(RDiv(RSub(RNeg(quadratic_half_b(s, r)), sqrt_discriminant),
               quadratic_a(s, r)), LAMBDA first_tried :
    Local(IF RLt(first_tried, tmin) \/ RLt(tmax, first_tried)
          THEN RDiv(RAdd(RNeg(quadratic_half_b(s, r)), sqrt_discriminant),
                    quadratic_a(s, r))
          ELSE first_tried, LAMBDA intersection_distance :
    IF RLt(intersection_distance, tmin) \/ RLt(tmax, intersection_distance)
    THEN [hit |-> FALSE, record |-> rec]
    ELSE
    Local(at(r, intersection_distance), LAMBDA p :
    [hit |-> TRUE,
     record |-> set_face_normal(
         [rec EXCEPT !.distance_from_ray = intersection_distance,
                     !.hit_point = p,
                     !.material_ptr = s.material_ptr],
         r, VDiv(VSub(p, s.center_position), s.radius))])))))

\* RectOrientation::outward_normal ignoring the flip flag.
outward_normal_unflipped(orientation, flip) ==
    orientation.base_normal

\* RectOrientation::outward_normal
outward_normal(orientation, flip) ==
    IF flip THEN negate(orientation.base_normal) ELSE orientation.base_normal

AxisAlignedRect(orientation, u0, u1, v0, v1, k, mat, flip) ==
    [kind |-> "Rect", orientation |-> orientation, u0 |-> u0, u1 |-> u1,
     v0 |-> v0, v1 |-> v1, k |-> k, material_ptr |-> mat, flip_normal |-> flip]

\* The threshold below which AxisAlignedRect::hit treats the ray as parallel.
\* The bound of the parallel test at 1e-9.
ParallelEpsNarrow ==
    R(1, 1000000000)

ParallelEps ==
    R(1, 100000000)

\* AxisAlignedRect::hit
\* value < low || value > high with the ends counted as outside.
outside_ends_excluded(value, low, high) ==
    RLe(value, low) \/ RLe(high, value)

\* value < low || value > high, the test of hit for t, u_coord and v_coord.
outside(value, low, high) ==
    RLt(value, low) \/ RLt(high, value)

RectHit(q, r, tmin, tmax, rec) ==
    Local(component(r.direction, q.orientation.normal_axis), LAMBDA denominator :
    IF RLt(RAbs(denominator), ParallelEps) THEN [hit |-> FALSE, record |-> rec]
    ELSE
    Local(RDiv(RSub(q.k, component(r.origin, q.orientation.normal_axis)),
               denominator), LAMBDA t :
    IF outside(t, tmin, tmax) THEN [hit |-> FALSE, record |-> rec]
    ELSE
    Local(RAdd(component(r.origin, q.orientation.tangent_u),
               RMul(t, component(r.direction, q.orientation.tangent_u))),
          LAMBDA u_coord :
    Local(RAdd(component(r.origin, q.orientation.tangent_v),
               RMul(t, component(r.direction, q.orientation.tangent_v))),
          LAMBDA v_coord :
    IF outside(u_coord, q.u0, q.u1) \/ outside(v_coord, q.v0, q.v1)
    THEN [hit |-> FALSE, record |-> rec]
    ELSE [hit |-> TRUE,
          record |-> set_face_normal(
              [rec EXCEPT !.distance_from_ray = t,
                          !.hit_point = at(r, t),
                          !.material_ptr = q.material_ptr],
              r, outward_normal(q.orientation, q.flip_normal))]))))

RECURSIVE ObjectHit(_, _, _, _, _)

\* The body of the loop of HittableList::hit with closest_so_far never
\* lowered.
ListStepNoNarrowing(obj, r, tmin, st) ==
    Local(ObjectHit(obj, r, tmin, st.closest_so_far, st.temp_record), LAMBDA res :
    IF res.hit
    THEN [temp_record |-> res.record, hit_anything |-> TRUE,
          closest_so_far |-> st.closest_so_far, record |-> res.record]
    ELSE [st EXCEPT !.temp_record = res.record])

\* The body of the loop of HittableList::hit with a hit at exactly
\* closest_so_far left aside.
ListStepKeepsFirstTie(obj, r, tmin, st) ==
    Local(ObjectHit(obj, r, tmin, st.closest_so_far, st.temp_record), LAMBDA res :
    IF /\ res.hit
       /\ \/ ~st.hit_anything
          \/ RLt(res.record.distance_from_ray, st.closest_so_far)
    THEN [temp_record |-> res.record, hit_anything |-> TRUE,
          closest_so_far |-> res.record.distance_from_ray, record |-> res.record]
    ELSE [st EXCEPT !.temp_record = res.record])

\* The body of the loop of HittableList::hit for one member.  st holds the
\* locals temp_record, hit_anything, closest_so_far and the caller's record.
ListStep(obj, r, tmin, st) ==
    Local(ObjectHit(obj, r, tmin, st.closest_so_far, st.temp_record), LAMBDA res :
    IF res.hit
    THEN [temp_record |-> res.record, hit_anything |-> TRUE,
          closest_so_far |-> res.record.distance_from_ray, record |-> res.record]
    ELSE [st EXCEPT !.temp_record = res.record])

\* The loop of HittableList::hit from member i on.
RECURSIVE ListLoop(_, _, _, _, _)
ListLoop(objs, i, r, tmin, st) ==
    IF i > Len(objs) THEN st
    ELSE Local(ListStep(objs[i], r, tmin, st),
               LAMBDA next : ListLoop(objs, i + 1, r, tmin, next))

\* HittableList::hit handing back temp_record whether or not a member hit.
ListHitReturnsTemp(objs, r, tmin, tmax, rec) ==
    Local(ListLoop(objs, 1, r, tmin,
                   [temp_record |-> DefaultHitRecord, hit_anything |-> FALSE,
                    closest_so_far |-> tmax, record |-> rec]), LAMBDA st :
    [hit |-> st.hit_anything, record |-> st.temp_record])

\* HittableList::hit
ListHit(objs, r, tmin, tmax, rec) ==
    Local(ListLoop(objs, 1, r, tmin,
                   [temp_record |-> DefaultHitRecord, hit_anything |-> FALSE,
                    closest_so_far |-> tmax, record |-> rec]), LAMBDA st :
    [hit |-> st.hit_anything, record |-> st.record])

\* Hittable::hit, dispatched on the dynamic type; Box::hit delegates to its
\* six sides.
ObjectHit(obj, r, tmin, tmax, rec) ==
    CASE obj.kind = "Sphere" -> SphereHit(obj, r, tmin, tmax, rec)
      [] obj.kind = "Rect" -> RectHit(obj, r, tmin, tmax, rec)
      [] obj.kind = "Box" -> ListHit(obj.sides, r, tmin, tmax, rec)

\* The three orientations of AxisAlignedRect.h.  XYRect, XZRect and YZRect
\* each pass a static kOrientation whose initialiser is not part of the
\* sources at hand: the axes follow the constructors' parameters, the base
\* normal is taken to be the positive normal axis.
kOrientationXY ==
    [tangent_u |-> "X", tangent_v |-> "Y", normal_axis |-> "Z",
     base_normal |-> IVec(0, 0, 1)]

kOrientationXZ ==
    [tangent_u |-> "X", tangent_v |-> "Z", normal_axis |-> "Y",
     base_normal |-> IVec(0, 1, 0)]

kOrientationYZ ==
    [tangent_u |-> "Y", tangent_v |-> "Z", normal_axis |-> "X",
     base_normal |-> IVec(1, 0, 0)]

XYRect(x0, x1, y0, y1, k, mat, flip) ==
    AxisAlignedRect(kOrientationXY, x0, x1, y0, y1, k, mat, flip)

XZRect(x0, x1, z0, z1, k, mat, flip) ==
    AxisAlignedRect(kOrientationXZ, x0, x1, z0, z1, k, mat, flip)

YZRect(y0, y1, z0, z1, k, mat, flip) ==
    AxisAlignedRect(kOrientationYZ, y0, y1, z0, z1, k, mat, flip)

\* Box::Box: the six sides in the order they are added.
Box(min_point, max_point, mat) ==
    [kind |-> "Box", minimum_corner |-> min_point, maximum_corner |-> max_point,
     sides |-> <<
        XYRect(min_point.x, max_point.x, min_point.y, max_point.y, max_point.z, mat, FALSE),
        XYRect(min_point.x, max_point.x, min_point.y, max_point.y, min_point.z, mat, TRUE),
        XZRect(min_point.x, max_point.x, min_point.z, max_point.z, max_point.y, mat, FALSE),
        XZRect(min_point.x, max_point.x, min_point.z, max_point.z, min_point.y, mat, TRUE),
        YZRect(min_point.y, max_point.y, min_point.z, max_point.z, max_point.x, mat, TRUE),
        YZRect(min_point.y, max_point.y, min_point.z, max_point.z, min_point.x, mat, FALSE)
     >>]

----------------------------------------------------------------------------
(* Utils: random sampling, reflection, refraction                          *)

\* random_double(min, max) from the value u that random_double() returned.
random_double_in(min, max, u) ==
    RAdd(min, RMul(RSub(max, min), u))

\* random_in_unit_sphere on the upcoming values rnd of random_double():
\* candidates are drawn three values at a time until one lies inside the
\* unit sphere.  The result is the point and the number of values used.
RECURSIVE random_in_unit_sphere(_, _)
random_in_unit_sphere(rnd, used) ==
    Local(Vec3(random_double_in(I(-1), One, rnd[used + 1]),
               random_double_in(I(-1), One, rnd[used + 2]),
               random_double_in(I(-1), One, rnd[used + 3])), LAMBDA point :
    IF RLt(length_squared(point), One)
    THEN [point |-> point, used |-> used + 3]
    ELSE random_in_unit_sphere(rnd, used + 3))

\* random_unit_vector
random_unit_vector(rnd) ==
    Local(random_in_unit_sphere(rnd, 0), LAMBDA inside :
    [point |-> unit_vector(inside.point), used |-> inside.used])

\* cos(2 pi u) and sin(2 pi u) on the quarter turns, where they are rational.
CosTurn(u) ==
    CASE u = Zero -> One
      [] u = R(1, 4) -> Zero
      [] u = R(1, 2) -> I(-1)
      [] u = R(3, 4) -> Zero

SinTurn(u) ==
    CASE u = Zero -> Zero
      [] u = R(1, 4) -> One
      [] u = R(1, 2) -> Zero
      [] u = R(3, 4) -> I(-1)

\* random_cosine_direction on the two values rnd[1], rnd[2] of random_double().
random_cosine_direction(normal, rnd) ==
    Local(RSqrt(rnd[1]), LAMBDA r :
    Local(Vec3(RMul(r, CosTurn(rnd[2])), RMul(r, SinTurn(rnd[2])),
               RSqrt(RSub(One, RMul(r, r)))), LAMBDA local :
    Local(IF RLt(R(9, 10), RAbs(normal.x)) THEN IVec(0, 1, 0) ELSE IVec(1, 0, 0),
          LAMBDA a :
    Local(unit_vector(cross(normal, a)), LAMBDA tangent :
    Local(cross(normal, tangent), LAMBDA bitangent :
    Local(VAdd(VScale(local.x, tangent), VScale(local.y, bitangent)),
          LAMBDA in_plane :
    unit_vector(VAdd(in_plane, VScale(local.z, normal)))))))))

\* The epsilon of is_near_zero.
NearZeroEps ==
    R(1, 100000000)

is_near_zero(v) ==
    /\ RLt(RAbs(v.x), NearZeroEps)
    /\ RLt(RAbs(v.y), NearZeroEps)
    /\ RLt(RAbs(v.z), NearZeroEps)

reflect(incoming, normal) ==
    Local(dot(incoming, normal), LAMBDA along :
    VSub(incoming, VScale(RMul(I(2), along), normal)))

refract(incoming, normal, refraction_ratio) ==
    Local(RMin(dot(negate(incoming), normal), One), LAMBDA cosine :
    Local(VScale(refraction_ratio, VAdd(incoming, VScale(cosine, normal))),
          LAMBDA refracted_perpendicular :
    Local(VScale(RNeg(RSqrt(RAbs(RSub(One,
                     length_squared(refracted_perpendicular))))), normal),
          LAMBDA refracted_parallel :
    VAdd(refracted_perpendicular, refracted_parallel))))

----------------------------------------------------------------------------
(* Materials                                                               *)

Matte(c) ==
    [kind |-> "Matte", surface_color |-> c]

\* fuzz < 1 on a double: false on NaN and on +infinity.
less_than_one(x) ==
    IF IsFinite(x) THEN RLt(x, One) ELSE x = NegInf

\* Reflective::Reflective clamps the fuzziness from above.
Reflective(c, arg) ==
    [kind |-> "Reflective", surface_color |-> c,
     fuzziness |-> IF less_than_one(arg) THEN arg ELSE One]

Transparent(refraction_index) ==
    [kind |-> "Transparent", refractive_index |-> refraction_index]

\* Material::base_color with glass given no colour.
base_color_black_glass(m) ==
    CASE m.kind = "Matte" -> m.surface_color
      [] m.kind = "Reflective" -> m.surface_color
      [] m.kind = "Transparent" -> IVec(0, 0, 0)

\* Material::base_color of the three materials.
base_color(m) ==
    CASE m.kind = "Matte" -> m.surface_color
      [] m.kind = "Reflective" -> m.surface_color
      [] m.kind = "Transparent" -> IVec(1, 1, 1)

\* is_diffuse answering true for every material.
is_diffuse_every_material(m) ==
    TRUE

\* Material::is_diffuse: false unless overridden, and only Matte overrides.
is_diffuse(m) ==
    m.kind = "Matte"

\* Matte::scatter.  The result is the returned flag, the ScatterRecord and
\* the number of random values used.
MatteScatter(m, ray_in, hit_info, rec, rnd) ==
    Local(random_cosine_direction(hit_info.surface_normal, rnd), LAMBDA sampled :
    Local(IF is_near_zero(sampled) THEN hit_info.surface_normal ELSE sampled,
          LAMBDA scatter_direction :
    [ret |-> TRUE,
     record |-> [scattered_ray |-> Ray(hit_info.hit_point, scatter_direction),
                 attenuation |-> m.surface_color,
                 did_scatter |-> TRUE],
     used |-> 2]))

\* Reflective::scatter accepting a direction that lies in the surface.
ReflectiveScatterAcceptsGrazing(m, ray_in, hit_info, rec, rnd) ==
    Local(unit_vector(ray_in.direction), LAMBDA unit_direction :
    Local(reflect(unit_direction, hit_info.surface_normal), LAMBDA mirrored :
    Local(random_unit_vector(rnd), LAMBDA fuzzed :
    Local(VAdd(mirrored, VScale(m.fuzziness, fuzzed.point)),
          LAMBDA reflected_direction :
    Local(RLe(Zero, dot(reflected_direction, hit_info.surface_normal)),
          LAMBDA scattered :
    [ret |-> scattered,
     record |-> [scattered_ray |-> Ray(hit_info.hit_point, reflected_direction),
                 attenuation |-> m.surface_color,
                 did_scatter |-> scattered],
     used |-> fuzzed.used])))))

\* Reflective::scatter
ReflectiveScatter(m, ray_in, hit_info, rec, rnd) ==
    Local(unit_vector(ray_in.direction), LAMBDA unit_direction :
    Local(reflect(unit_direction, hit_info.surface_normal), LAMBDA mirrored :
    Local(random_unit_vector(rnd), LAMBDA fuzzed :
    Local(VAdd(mirrored, VScale(m.fuzziness, fuzzed.point)),
          LAMBDA reflected_direction :
    Local(RLt(Zero, dot(reflected_direction, hit_info.surface_normal)),
          LAMBDA scattered :
    [ret |-> scattered,
     record |-> [scattered_ray |-> Ray(hit_info.hit_point, reflected_direction),
                 attenuation |-> m.surface_color,
                 did_scatter |-> scattered],
     used |-> fuzzed.used])))))

\* std::pow(base, 5)
Pow5(base) ==
    RMul(RMul(RMul(base, base), RMul(base, base)), base)

\* Transparent::reflectance, Schlick's approximation
reflectance(cosine, refraction_index) ==
    Local(RDiv(RSub(One, refraction_index), RAdd(One, refraction_index)),
          LAMBDA r0 :
    Local(RMul(r0, r0), LAMBDA r0sq :
    Local(Pow5(RSub(One, cosine)), LAMBDA grazing :
    RAdd(r0sq, RMul(RSub(One, r0sq), grazing)))))

\* The refraction ratio Transparent::scatter uses for a hit.
refraction_ratio(m, hit_info) ==
    IF hit_info.is_front_face THEN RDiv(One, m.refractive_index)
    ELSE m.refractive_index

\* cos_theta of Transparent::scatter
cos_theta(ray_in, hit_info) ==
    Local(unit_vector(ray_in.direction), LAMBDA unit_direction :
    Local(dot(negate(unit_direction), hit_info.surface_normal), LAMBDA along :
    RMin(along, One)))

\* sin_theta of Transparent::scatter
sin_theta(ray_in, hit_info) ==
    Local(cos_theta(ray_in, hit_info), LAMBDA cosine :
    RSqrt(RSub(One, RMul(cosine, cosine))))

\* cannot_refract of Transparent::scatter
cannot_refract(m, ray_in, hit_info) ==
    Local(sin_theta(ray_in, hit_info), LAMBDA sine :
    RLt(One, RMul(refraction_ratio(m, hit_info), sine)))

\* Transparent::scatter deciding by the Fresnel draw alone.
TransparentScatterFresnelOnly(m, ray_in, hit_info, rec, rnd) ==
    Local(unit_vector(ray_in.direction), LAMBDA unit_direction :
    Local(cos_theta(ray_in, hit_info), LAMBDA cosine :
    Local(RLt(rnd[1], reflectance(cosine, refraction_ratio(m, hit_info))),
          LAMBDA reflects :
    Local(IF reflects THEN reflect(unit_direction, hit_info.surface_normal)
          ELSE refract(unit_direction, hit_info.surface_normal,
                       refraction_ratio(m, hit_info)),
          LAMBDA direction :
    [ret |-> TRUE,
     record |-> [scattered_ray |-> Ray(hit_info.hit_point, direction),
                 attenuation |-> IVec(1, 1, 1),
                 did_scatter |-> TRUE],
     used |-> 1]))))

\* Transparent::scatter reflecting when the draw equals the reflectance.
TransparentScatterReflectsOnTie(m, ray_in, hit_info, rec, rnd) ==
    Local(unit_vector(ray_in.direction), LAMBDA unit_direction :
    Local(cos_theta(ray_in, hit_info), LAMBDA cosine :
    Local(cannot_refract(m, ray_in, hit_info), LAMBDA must_reflect :
    Local(\/ must_reflect
          \/ RLe(rnd[1], reflectance(cosine, refraction_ratio(m, hit_info))),
          LAMBDA reflects :
    Local(IF reflects THEN reflect(unit_direction, hit_info.surface_normal)
          ELSE refract(unit_direction, hit_info.surface_normal,
                       refraction_ratio(m, hit_info)),
          LAMBDA direction :
    [ret |-> TRUE,
     record |-> [scattered_ray |-> Ray(hit_info.hit_point, direction),
                 attenuation |-> IVec(1, 1, 1),
                 did_scatter |-> TRUE],
     used |-> IF must_reflect THEN 0 ELSE 1])))))

\* Transparent::scatter.  random_double() is called only when refraction is
\* possible: the || of the code does not evaluate its right side otherwise.
TransparentScatter(m, ray_in, hit_info, rec, rnd) ==
    Local(unit_vector(ray_in.direction), LAMBDA unit_direction :
    Local(cos_theta(ray_in, hit_info), LAMBDA cosine :
    Local(cannot_refract(m, ray_in, hit_info), LAMBDA must_reflect :
    Local(\/ must_reflect
          \/ RLt(rnd[1], reflectance(cosine, refraction_ratio(m, hit_info))),
          LAMBDA reflects :
    Local(IF reflects THEN reflect(unit_direction, hit_info.surface_normal)
          ELSE refract(unit_direction, hit_info.surface_normal,
                       refraction_ratio(m, hit_info)),
          LAMBDA direction :
    [ret |-> TRUE,
     record |-> [scattered_ray |-> Ray(hit_info.hit_point, direction),
                 attenuation |-> IVec(1, 1, 1),
                 did_scatter |-> TRUE],
     used |-> IF must_reflect THEN 0 ELSE 1])))))

\* Material::scatter, dispatched on the dynamic type.
Scatter(m, ray_in, hit_info, rec, rnd) ==
    CASE m.kind = "Matte" -> MatteScatter(m, ray_in, hit_info, rec, rnd)
      [] m.kind = "Reflective" -> ReflectiveScatter(m, ray_in, hit_info, rec, rnd)
      [] m.kind = "Transparent" -> TransparentScatter(m, ray_in, hit_info, rec, rnd)


----------------------------------------------------------------------------
(* Renderer: direct lighting                                               *)

Light(pos, power) ==
    [position |-> pos, intensity |-> power]

\* struct Scene: the objects and the lights.
Scene(objs, lts) ==
    [objects |-> objs, lights |-> lts]

\* shadow_bias of compute_diffuse_lighting
shadow_bias ==
    R(1, 1000)

\* One iteration of the loop of compute_diffuse_lighting with the shadow
\* test left out.
LightContributionNoShadow(scene, hit_info, light) ==
    Local(VSub(light.position, hit_info.hit_point), LAMBDA to_light :
    Local(length_squared(to_light), LAMBDA distance_squared :
    IF RLe(distance_squared, Zero) THEN ZeroVec
    ELSE
    Local(unit_vector(to_light), LAMBDA light_direction :
    Local(dot(hit_info.surface_normal, light_direction), LAMBDA n_dot_l :
    IF RLe(n_dot_l, Zero) THEN ZeroVec
    ELSE VScale(n_dot_l, VDiv(light.intensity, distance_squared))))))

\* One iteration of the loop of compute_diffuse_lighting with the shadow
\* ray blocked by a hit at any distance.
LightContributionAnyDistance(scene, hit_info, light) ==
    Local(VSub(light.position, hit_info.hit_point), LAMBDA to_light :
    Local(length_squared(to_light), LAMBDA distance_squared :
    IF RLe(distance_squared, Zero) THEN ZeroVec
    ELSE
    Local(unit_vector(to_light), LAMBDA light_direction :
    Local(dot(hit_info.surface_normal, light_direction), LAMBDA n_dot_l :
    IF RLe(n_dot_l, Zero) THEN ZeroVec
    ELSE IF ListHit(scene.objects,
                    Ray(VAdd(hit_info.hit_point,
                             VScale(shadow_bias, hit_info.surface_normal)),
                        light_direction),
                    Zero, I(1000000), DefaultHitRecord).hit
         THEN ZeroVec
         ELSE VScale(n_dot_l, VDiv(light.intensity, distance_squared))))))

\* One iteration of the loop of compute_diffuse_lighting: what the light
\* adds to accumulated_light, zero where the iteration is skipped.
LightContribution(scene, hit_info, light) ==
    Local(VSub(light.position, hit_info.hit_point), LAMBDA to_light :
    Local(length_squared(to_light), LAMBDA distance_squared :
    IF RLe(distance_squared, Zero) THEN ZeroVec
    ELSE
    Local(unit_vector(to_light), LAMBDA light_direction :
    Local(dot(hit_info.surface_normal, light_direction), LAMBDA n_dot_l :
    IF RLe(n_dot_l, Zero) THEN ZeroVec
    ELSE IF ListHit(scene.objects,
                    Ray(VAdd(hit_info.hit_point,
                             VScale(shadow_bias, hit_info.surface_normal)),
                        light_direction),
                    shadow_bias,
                    RSub(RSqrt(distance_squared), shadow_bias),
                    DefaultHitRecord).hit
         THEN ZeroVec
         ELSE VScale(n_dot_l, VDiv(light.intensity, distance_squared))))))

\* The loop of compute_diffuse_lighting from light i on.
RECURSIVE LightLoop(_, _, _, _)
LightLoop(scene, hit_info, i, accumulated_light) ==
    IF i > Len(scene.lights) THEN accumulated_light
    ELSE Local(VAdd(accumulated_light,
                    LightContribution(scene, hit_info, scene.lights[i])),
               LAMBDA accumulated : LightLoop(scene, hit_info, i + 1, accumulated))

compute_diffuse_lighting(scene, hit_info) ==
    IF Len(scene.lights) = 0 THEN ZeroVec
    ELSE LightLoop(scene, hit_info, 1, ZeroVec)

----------------------------------------------------------------------------
(* Inputs and idle values shared by the specifications                     *)

\* Coordinates of the input grid run over -MaxCoord..MaxCoord.
MaxCoord ==
    2

\* Radii run over the halves up to MaxRadius.
MaxRadius ==
    2

Coords ==
    -MaxCoord..MaxCoord

Radii ==
    {R(k, 2) : k \in 1..(2 * MaxRadius)}

\* A record some earlier query left in the caller's HitRecord.
StaleHitRecord ==
    [hit_point |-> IVec(7, 7, 7), surface_normal |-> IVec(0, 1, 0),
     distance_from_ray |-> I(7), is_front_face |-> TRUE,
     object_color |-> ZeroVec, material_ptr |-> [kind |-> "stale"]]

PriorRecords ==
    {DefaultHitRecord, StaleHitRecord}

NoRay ==
    Ray(ZeroVec, ZeroVec)

DefaultScatterRecord ==
    [scattered_ray |-> NoRay, attenuation |-> ZeroVec, did_scatter |-> FALSE]

\* The generator of Utils.cpp is a deterministic machine: from a given state
\* it returns one fixed sequence of values.  It is kept as the values it
\* has returned from the state the run began in, and the number of the value
\* it returns next; values beyond those are not yet known and may be
\* anything.  With next = 0 the generator is not followed.
Untracked ==
    [returned |-> << >>, next |-> 0]

\* The state a followed run begins in.
FreshGenerator ==
    [returned |-> << >>, next |-> 1]

\* The first `used' values of rnd are what `used' calls of random_double()
\* return from state gen.
MayReturn(gen, rnd, used) ==
    IF gen.next = 0 THEN TRUE
    ELSE \A i \in 1..used :
            gen.next + i - 1 <= Len(gen.returned)
                => gen.returned[gen.next + i - 1] = rnd[i]

\* The state of the generator after those calls.
AfterDraws(gen, rnd, used) ==
    IF gen.next = 0 THEN gen
    ELSE [returned |-> IF gen.next + used - 1 > Len(gen.returned)
                       THEN SubSeq(gen.returned, 1, gen.next - 1)
                                \o SubSeq(rnd, 1, used)
                       ELSE gen.returned,
          next |-> gen.next + used]

\* The variables of hit are not in use.
HitIdle ==
    /\ ray = NoRay
    /\ min_distance = Zero
    /\ max_distance = Zero
    /\ objects = << >>
    /\ record = DefaultHitRecord
    /\ hit_anything = FALSE

\* The variables of scatter are not in use.
ScatterIdle ==
    /\ material = NullMaterial
    /\ scatter_record = DefaultScatterRecord
    /\ did_return = FALSE
    /\ draws = << >>
    /\ fuzz = Zero
    /\ generator = Untracked

\* No configuration and no camera.
NoConfig ==
    [image_width |-> 0, image_height |-> 0, samples_per_pixel |-> 0,
     output_path |-> ""]

NoCamera ==
    [origin |-> ZeroVec, horizontal |-> ZeroVec, vertical |-> ZeroVec,
     lower_left_corner |-> ZeroVec]

\* The variables of render_image, render_pixel and main are not in use.
RenderIdle ==
    /\ config = NoConfig
    /\ camera = NoCamera
    /\ max_depth = 0
    /\ row = 0
    /\ col = 0
    /\ sample = 0
    /\ accumulated_color = ZeroVec
    /\ rendered = << >>
    /\ traced = << >>
    /\ hit_queries = 0
    /\ lighting_calls = 0
    /\ build = "none"
    /\ written_files = << >>
    /\ exit_code = -1

\* The variables of the integrator and of the output are not in use.
TraceIdle ==
    /\ lights = << >>
    /\ depth = 0
    /\ frames = << >>
    /\ color = ZeroVec
    /\ image_buffer = << >>
    /\ RenderIdle

hitVars ==
    << ray, min_distance, max_distance, objects, record, hit_anything >>

scatterVars ==
    << material, scatter_record, did_return, draws >>

imageVars ==
    << config, camera, max_depth, row, col, sample, accumulated_color,
       rendered, traced, build, written_files, exit_code >>

renderVars ==
    << imageVars, hit_queries, lighting_calls >>

traceVars ==
    << lights, fuzz, generator, depth, frames, color, image_buffer,
       renderVars >>

----------------------------------------------------------------------------
(* SpecSphere: one call of Sphere::hit on drawn inputs                     *)

MatA ==
    Matte(Vec3(R(1, 2), R(1, 2), R(1, 2)))

SphereCenters ==
    {ZeroVec, IVec(0, 0, 1), IVec(1, 0, 0)}

\* Positive radii and one negative radius (the hollow-shell trick).
SphereInputs ==
    {Sphere(c, r, MatA) : c \in SphereCenters, r \in Radii \cup {I(-1)}}

SphereRayOrigins ==
    {IVec(x, 0, z) : x \in Coords, z \in Coords}
        \cup {Vec3(Zero, Zero, RMul(I(-2), r)) : r \in Radii}

SphereRayDirections ==
    {IVec(0, 0, 1), IVec(0, 0, -1), IVec(0, 0, 2), IVec(1, 0, 0)}

MinDistances ==
    {Zero, R(1, 1000), One}

MaxDistances ==
    {One, I(3), I(1000000)}

\* Sphere::hit takes the square root of the discriminant when it is not
\* negative; the inputs are those on which that root is rational.
SphereExact(s, r) ==
    RLt(discriminant(s, r), Zero) \/ RIsSquare(discriminant(s, r))

InitSphere ==
    /\ pc = "call"
    /\ ray \in {Ray(o, d) : o \in SphereRayOrigins, d \in SphereRayDirections}
    /\ min_distance \in MinDistances
    /\ max_distance \in MaxDistances
    /\ objects \in {<<s>> : s \in SphereInputs}
    /\ SphereExact(objects[1], ray)
    /\ record = DefaultHitRecord
    /\ hit_anything = FALSE
    /\ ScatterIdle
    /\ TraceIdle

CallSphereHit ==
    /\ pc = "call"
    /\ objects[1].kind = "Sphere"
    /\ \E res \in {SphereHit(objects[1], ray, min_distance, max_distance, record)} :
          /\ record' = res.record
          /\ hit_anything' = res.hit
    /\ pc' = "done"
    /\ UNCHANGED << ray, min_distance, max_distance, objects >>
    /\ UNCHANGED << scatterVars, traceVars >>

NextSphere ==
    CallSphereHit

SpecSphere ==
    InitSphere /\ [][NextSphere]_vars

\* The ray of C5: from (0, 0, -2r) along +z at a sphere of radius r > 0
\* centred at the origin, with r inside the accepted range.
AxisRayAtCentredSphere ==
    /\ objects[1].kind = "Sphere"
    /\ objects[1].center_position = ZeroVec
    /\ RLt(Zero, objects[1].radius)
    /\ ray.origin = Vec3(Zero, Zero, RMul(I(-2), objects[1].radius))
    /\ ray.direction = IVec(0, 0, 1)
    /\ RLe(min_distance, objects[1].radius)
    /\ RLe(objects[1].radius, max_distance)

\* C5: a sphere of radius r > 0 centred at the origin, hit by the ray from
\* (0, 0, -2r) along +z with min_distance <= r <= max_distance, reports a
\* hit at distance r with surface normal (0, 0, -1).
C5_AxisRayHitsAtRadius ==
    (pc = "done" /\ AxisRayAtCentredSphere) =>
        /\ hit_anything
        /\ record.distance_from_ray = objects[1].radius
        /\ record.surface_normal = IVec(0, 0, -1)

C5_Witness ==
    /\ pc = "done"
    /\ AxisRayAtCentredSphere
    /\ objects[1].radius = R(3, 2)
    /\ hit_anything
    /\ record.hit_point = Vec3(Zero, Zero, R(-3, 2))

\* t solves a t^2 + 2 half_b t + c = 0 for the sphere and the ray.
IsQuadraticRoot(s, r, t) ==
    RAdd(RAdd(RMul(quadratic_a(s, r), RMul(t, t)),
              RMul(I(2), RMul(quadratic_half_b(s, r), t))),
         quadratic_c(s, r)) = Zero

\* The other root of the quadratic, by the sum of the roots -2 half_b / a.
OtherRoot(s, r, t) ==
    RSub(RDiv(RMul(I(-2), quadratic_half_b(s, r)), quadratic_a(s, r)), t)

InRange(t) ==
    RLe(min_distance, t) /\ RLe(t, max_distance)

\* C6: a hit reported by Sphere::hit has its distance inside
\* [min_distance, max_distance], the distance is a root of the ray-sphere
\* quadratic, and it is the larger root only when the smaller root lies
\* outside the range.
C6_SphereRootInRange ==
    (pc = "done" /\ hit_anything) =>
        LET t == record.distance_from_ray
            o == OtherRoot(objects[1], ray, t)
        IN  /\ InRange(t)
            /\ IsQuadraticRoot(objects[1], ray, t)
            /\ RLt(o, t) => ~InRange(o)

\* The larger root is reported because the smaller one is out of range.
C6_Witness ==
    /\ pc = "done"
    /\ hit_anything
    /\ RLt(OtherRoot(objects[1], ray, record.distance_from_ray),
           record.distance_from_ray)
    /\ RLt(OtherRoot(objects[1], ray, record.distance_from_ray), min_distance)

----------------------------------------------------------------------------
(* SpecRect: one call of AxisAlignedRect::hit on drawn inputs              *)

\* The three orientations, each with the base normal along the positive or
\* the negative normal axis.
RectOrientations ==
    {kOrientationXY, kOrientationXZ, kOrientationYZ}
        \cup {[o EXCEPT !.base_normal = negate(o.base_normal)] :
                o \in {kOrientationXY, kOrientationXZ, kOrientationYZ}}

RectInputs ==
    {AxisAlignedRect(o, I(-1), I(1), Zero, I(2), k, MatA, flip) :
        o \in RectOrientations, k \in {I(-1), I(1)}, flip \in BOOLEAN}

RectRayOrigins ==
    {IVec(x, y, z) : x \in {-MaxCoord, 0, 1}, y \in {0, 1}, z \in {-MaxCoord, 0, 1}}

\* Along the axes, oblique, and nearly along an axis: a component of
\* 1/200000000, below the 1e-8 of the parallel test, and one of exactly 1e-8.
RectRayDirections ==
    {IVec(0, 0, 1), IVec(0, 0, -1), IVec(0, 1, 0), IVec(0, -1, 0),
     IVec(1, 0, 0), IVec(-1, 0, 0), IVec(1, 1, 1), IVec(1, 0, -2),
     Vec3(Zero, Zero, R(1, 200000000)), Vec3(R(-1, 200000000), One, Zero),
     Vec3(Zero, Zero, R(1, 100000000))}

InitRect ==
    /\ pc = "call"
    /\ ray \in {Ray(o, d) : o \in RectRayOrigins, d \in RectRayDirections}
    /\ min_distance \in {Zero, R(1, 1000)}
    /\ max_distance \in {I(2), I(1000000), I(1000000000)}
    /\ objects \in {<<q>> : q \in RectInputs}
    /\ record \in PriorRecords
    /\ hit_anything = FALSE
    /\ ScatterIdle
    /\ TraceIdle

CallRectHit ==
    /\ pc = "call"
    /\ objects[1].kind = "Rect"
    /\ \E res \in {RectHit(objects[1], ray, min_distance, max_distance, record)} :
          /\ record' = res.record
          /\ hit_anything' = res.hit
    /\ pc' = "done"
    /\ UNCHANGED << ray, min_distance, max_distance, objects >>
    /\ UNCHANGED << scatterVars, traceVars >>

NextRect ==
    CallRectHit

SpecRect ==
    InitRect /\ [][NextRect]_vars

\* The same rectangle built with the other value of flip.
Flipped(q) ==
    [q EXCEPT !.flip_normal = ~q.flip_normal]

\* The hit of the same ray on the rectangle built with the other flip.
FlippedHit ==
    RectHit(Flipped(objects[1]), ray, min_distance, max_distance, DefaultHitRecord)

Denominator ==
    component(ray.direction, objects[1].orientation.normal_axis)

CrossingT ==
    RDiv(RSub(objects[1].k,
              component(ray.origin, objects[1].orientation.normal_axis)),
         Denominator)

CrossingU ==
    component(VAdd(ray.origin, VScale(CrossingT, ray.direction)),
              objects[1].orientation.tangent_u)

CrossingV ==
    component(VAdd(ray.origin, VScale(CrossingT, ray.direction)),
              objects[1].orientation.tangent_v)

\* C20: for a ray that is not parallel to the plane, hit reports a hit
\* exactly when t_min <= t <= t_max, u0 <= u <= u1 and v0 <= v <= v1, the
\* ends of the three intervals included.
C20_HitIffInsideClosedBounds ==
    (pc = "done" /\ ~RLt(RAbs(Denominator), R(1, 100000000))) =>
        hit_anything =
            (/\ RLe(min_distance, CrossingT) /\ RLe(CrossingT, max_distance)
             /\ RLe(objects[1].u0, CrossingU) /\ RLe(CrossingU, objects[1].u1)
             /\ RLe(objects[1].v0, CrossingV) /\ RLe(CrossingV, objects[1].v1))

\* A ray crosses the plane at t = max_distance in the corner (u1, v0) of the
\* rectangle and is reported.
C20_Witness ==
    /\ pc = "done"
    /\ hit_anything
    /\ CrossingT = max_distance
    /\ CrossingU = objects[1].u1
    /\ CrossingV = objects[1].v0
    /\ record.distance_from_ray = max_distance

----------------------------------------------------------------------------
(* SpecList: Hittable::hit on one member, HittableList::hit on the list    *)

\* The longest list of members drawn.
MaxObjects ==
    2

MatB ==
    Matte(Vec3(R(4, 5), R(1, 5), R(1, 5)))

MatC ==
    Reflective(Vec3(R(4, 5), R(4, 5), R(4, 5)), Zero)

MatD ==
    Reflective(Vec3(R(1, 2), R(3, 5), R(7, 10)), R(3, 4))

MatE ==
    Transparent(R(3, 2))

MatF ==
    Transparent(R(4, 3))

\* Members that overlap along the axes: concentric spheres, a rectangle
\* touching the unit sphere and the unit box, a rectangle behind them, a box.
ListMembers ==
    {Sphere(ZeroVec, One, MatA),
     Sphere(ZeroVec, I(2), MatB),
     XYRect(I(-1), I(1), I(-1), I(1), I(1), MatC, FALSE),
     XYRect(I(-2), I(2), I(-2), I(2), I(-1), MatD, TRUE),
     YZRect(I(-1), I(1), I(-1), I(1), Zero, MatF, FALSE),
     Box(IVec(-1, -1, -1), IVec(1, 1, 1), MatE)}

\* The sequences of length 1..n of distinct elements of S.
RECURSIVE ListsOf(_, _)
ListsOf(S, n) ==
    IF n = 0 THEN {<< >>}
    ELSE Local(ListsOf(S, n - 1), LAMBDA shorter :
         shorter \cup
         {Append(l, m) : l \in {k \in shorter : Len(k) = n - 1}, m \in S})

Range(f) ==
    {f[i] : i \in DOMAIN f}

ListInputs ==
    {l \in ListsOf(ListMembers, MaxObjects) :
        Len(l) >= 1 /\ Cardinality(Range(l)) = Len(l)}

\* The primitives a list is made of, the sides of a box taken one by one.
Leaves(objs) ==
    UNION {IF o.kind = "Box" THEN Range(o.sides) ELSE {o} : o \in Range(objs)}

ListExact(objs, r) ==
    \A o \in Leaves(objs) : o.kind = "Sphere" => SphereExact(o, r)

ListRayOrigins ==
    {IVec(x, 0, z) : x \in {0, 1}, z \in Coords}

ListRayDirections ==
    {IVec(0, 0, 1), IVec(0, 0, -1), IVec(1, 0, 0), IVec(-1, 0, 1)}

ListRanges ==
    {<<R(1, 1000), I(1000000)>>, <<Zero, I(3)>>, <<One, I(2)>>}

InitList ==
    /\ pc = "call"
    /\ ray \in {Ray(o, d) : o \in ListRayOrigins, d \in ListRayDirections}
    /\ \E rg \in ListRanges : min_distance = rg[1] /\ max_distance = rg[2]
    /\ objects \in ListInputs
    /\ ListExact(objects, ray)
    /\ record \in PriorRecords
    /\ hit_anything = FALSE
    /\ ScatterIdle
    /\ TraceIdle

\* Hittable::hit called on a single Sphere, AxisAlignedRect or Box.
CallObjectHit ==
    /\ pc = "call"
    /\ Len(objects) = 1
    /\ \E res \in {ObjectHit(objects[1], ray, min_distance, max_distance, record)} :
          /\ record' = res.record
          /\ hit_anything' = res.hit
    /\ pc' = "done"
    /\ UNCHANGED << ray, min_distance, max_distance, objects >>
    /\ UNCHANGED << scatterVars, traceVars >>

\* HittableList::hit called on the whole list.
CallListHit ==
    /\ pc = "call"
    /\ \E res \in {ListHit(objects, ray, min_distance, max_distance, record)} :
          /\ record' = res.record
          /\ hit_anything' = res.hit
    /\ pc' = "done"
    /\ UNCHANGED << ray, min_distance, max_distance, objects >>
    /\ UNCHANGED << scatterVars, traceVars >>

NextList ==
    \/ CallObjectHit
    \/ CallListHit

SpecList ==
    InitList /\ [][NextList]_vars

\* What member i reports when asked on its own for the caller's range.
OwnHit(i) ==
    ObjectHit(objects[i], ray, min_distance, max_distance, DefaultHitRecord)

\* C2: the list reports a hit exactly when some member reports one for
\* [min_distance, max_distance], and the recorded distance is then the
\* least of the distances the members report on their own.
C2_ListReportsClosestHit ==
    pc = "done" =>
        /\ hit_anything <=> \E i \in DOMAIN objects : OwnHit(i).hit
        /\ hit_anything =>
            /\ \E i \in DOMAIN objects :
                  /\ OwnHit(i).hit
                  /\ OwnHit(i).record.distance_from_ray = record.distance_from_ray
            /\ \A i \in DOMAIN objects :
                  OwnHit(i).hit =>
                      RLe(record.distance_from_ray, OwnHit(i).record.distance_from_ray)

\* The member asked first is hit farther away than the member asked second,
\* and the second member's closer hit is the one reported.
C2_Witness ==
    /\ pc = "done"
    /\ hit_anything
    /\ Len(objects) = 2
    /\ OwnHit(1).hit
    /\ OwnHit(2).hit
    /\ RLt(OwnHit(2).record.distance_from_ray, OwnHit(1).record.distance_from_ray)
    /\ record = OwnHit(2).record

\* Point p lies on the primitive.
OnLeaf(L, p) ==
    IF L.kind = "Sphere"
    THEN length_squared(VSub(p, L.center_position)) = RMul(L.radius, L.radius)
    ELSE /\ component(p, L.orientation.normal_axis) = L.k
         /\ RLe(L.u0, component(p, L.orientation.tangent_u))
         /\ RLe(component(p, L.orientation.tangent_u), L.u1)
         /\ RLe(L.v0, component(p, L.orientation.tangent_v))
         /\ RLe(component(p, L.orientation.tangent_v), L.v1)

\* The normal the primitive hands to set_face_normal for a hit at p.
LeafOutward(L, p) ==
    IF L.kind = "Sphere"
    THEN VDiv(VSub(p, L.center_position), L.radius)
    ELSE outward_normal(L.orientation, L.flip_normal)

C21_MissLeavesRecord ==
    [][(pc = "call" /\ ~hit_anything')
          => (record' = record /\ objects' = objects)]_vars

\* Neither of two members is hit, and the record an earlier query left is
\* still in the caller's hands.
C21_Witness ==
    /\ pc = "done"
    /\ ~hit_anything
    /\ Len(objects) = 2
    /\ record = StaleHitRecord
    /\ \A i \in DOMAIN objects : ~OwnHit(i).hit

\* The members hit, each on its own, at the distance the list recorded.
Tied ==
    {i \in DOMAIN objects :
        /\ OwnHit(i).hit
        /\ OwnHit(i).record.distance_from_ray = record.distance_from_ray}

\* The list with its members in the opposite order.
Reversed(objs) ==
    [i \in 1..Len(objs) |-> objs[Len(objs) + 1 - i]]

\* C27: when several members are hit at exactly the same smallest distance
\* the record returned is that of the member added last among them, and the
\* distance returned is the same with the members added in the opposite
\* order.
C27_LastTiedMemberWins ==
    (pc = "done" /\ hit_anything) =>
        /\ Tied # {}
        /\ \A last \in Tied :
              (\A i \in Tied : i <= last) => record = OwnHit(last).record
        /\ ListHit(Reversed(objects), ray, min_distance, max_distance,
                   DefaultHitRecord).hit
        /\ ListHit(Reversed(objects), ray, min_distance, max_distance,
                   DefaultHitRecord).record.distance_from_ray
              = record.distance_from_ray

\* The unit sphere and the rectangle that touches it are hit at the same
\* distance by a ray along the axis, and the record carries the material of
\* the one added second, which is not that of the one added first.
C27_Witness ==
    /\ pc = "done"
    /\ hit_anything
    /\ Len(objects) = 2
    /\ Tied = {1, 2}
    /\ OwnHit(1).record.material_ptr # OwnHit(2).record.material_ptr
    /\ record.material_ptr = objects[2].material_ptr
    /\ record = OwnHit(2).record

----------------------------------------------------------------------------
(* SpecBox: Box::hit on boxes built from two corners                       *)

\* The cube around the origin and a box with three different sides.
BoxInputs ==
    {Box(IVec(-1, -1, -1), IVec(1, 1, 1), MatE),
     Box(IVec(0, 0, 0), IVec(1, 2, 3), MatB)}

\* Origins inside, outside and on the boxes.
BoxRayOrigins ==
    {Vec3(x, y, z) : x \in {I(-2), R(1, 2), I(4)}, y \in {I(-2), R(1, 2), I(4)},
                     z \in {I(-2), R(1, 2), I(4)}}

\* Directions along the six axes and along diagonals.
BoxRayDirections ==
    {IVec(1, 0, 0), IVec(-1, 0, 0), IVec(0, 1, 0), IVec(0, -1, 0),
     IVec(0, 0, 1), IVec(0, 0, -1), IVec(1, 1, 1), IVec(-1, -1, -1),
     IVec(-5, 1, 1), IVec(1, -5, 1)}

InitBox ==
    /\ pc = "call"
    /\ objects \in {<<b>> : b \in BoxInputs}
    /\ ray \in {Ray(o, d) : o \in BoxRayOrigins, d \in BoxRayDirections}
    /\ min_distance = R(1, 1000)
    /\ max_distance = I(1000000)
    /\ record \in PriorRecords
    /\ hit_anything = FALSE
    /\ ScatterIdle
    /\ TraceIdle

NextBox ==
    CallObjectHit

SpecBox ==
    InitBox /\ [][NextBox]_vars

\* Point p lies strictly inside the box, and strictly outside it.
InsideBox(b, p) ==
    /\ RLt(b.minimum_corner.x, p.x) /\ RLt(p.x, b.maximum_corner.x)
    /\ RLt(b.minimum_corner.y, p.y) /\ RLt(p.y, b.maximum_corner.y)
    /\ RLt(b.minimum_corner.z, p.z) /\ RLt(p.z, b.maximum_corner.z)

OutsideBox(b, p) ==
    \/ RLt(p.x, b.minimum_corner.x) \/ RLt(b.maximum_corner.x, p.x)
    \/ RLt(p.y, b.minimum_corner.y) \/ RLt(b.maximum_corner.y, p.y)
    \/ RLt(p.z, b.minimum_corner.z) \/ RLt(b.maximum_corner.z, p.z)

\* The axis of the face of the box the recorded point lies on, when it
\* lies on the faces of one axis only.
OnFaceOf(b, axis) ==
    /\ component(record.hit_point, axis)
          \in {component(b.minimum_corner, axis),
               component(b.maximum_corner, axis)}
    /\ \A other \in {"X", "Y", "Z"} \ {axis} :
          /\ RLt(component(b.minimum_corner, other),
                 component(record.hit_point, other))
          /\ RLt(component(record.hit_point, other),
                 component(b.maximum_corner, other))

\* C28: a ray that starts outside a box and hits it is reported with
\* is_front_face = true whichever face it hits, and a ray that starts
\* inside with is_front_face = false.
C28_BoxFacesPointOutward ==
    (pc = "done" /\ hit_anything) =>
        /\ OutsideBox(objects[1], ray.origin) => record.is_front_face
        /\ InsideBox(objects[1], ray.origin) => ~record.is_front_face

\* What the box as built does: on the faces of constant y and of constant z
\* the flag is as C28 says, on the two faces of constant x it is the
\* opposite.
C28_FacesOfConstantXPointInward ==
    (pc = "done" /\ hit_anything) =>
        /\ (OnFaceOf(objects[1], "Y") \/ OnFaceOf(objects[1], "Z")) =>
              /\ OutsideBox(objects[1], ray.origin) => record.is_front_face
              /\ InsideBox(objects[1], ray.origin) => ~record.is_front_face
        /\ OnFaceOf(objects[1], "X") =>
              /\ OutsideBox(objects[1], ray.origin) => ~record.is_front_face
              /\ InsideBox(objects[1], ray.origin) => record.is_front_face

\* A ray from (4, 1/2, 1/2) along -x hits the face x = 1 of the cube from
\* outside and is reported as a hit from inside.
C28_OutsideHitReportedAsBack ==
    /\ pc = "done"
    /\ hit_anything
    /\ objects[1].maximum_corner = IVec(1, 1, 1)
    /\ ray = Ray(Vec3(I(4), R(1, 2), R(1, 2)), IVec(-1, 0, 0))
    /\ record.hit_point = Vec3(One, R(1, 2), R(1, 2))
    /\ ~record.is_front_face

----------------------------------------------------------------------------
(* SpecScatter: one call of Material::scatter on a drawn hit              *)

\* A mirror whose requested fuzziness is above the clamp.
MatG ==
    Reflective(Vec3(R(9, 10), R(9, 10), R(9, 10)), R(3, 2))

ScatterMaterials ==
    {MatB, MatC, MatD, MatE, MatF, MatG}

ScatterNormals ==
    {IVec(0, 0, 1), IVec(0, 1, 0)}

\* Incoming directions: along the normal, at the angles of the 3-4-5
\* triangle, and not normalised.
ScatterRayDirections ==
    {IVec(0, 0, -1), IVec(0, 0, -2), IVec(0, 3, -4), IVec(3, 0, -4),
     IVec(0, 4, -3), IVec(0, -1, 0), IVec(3, -4, 0), IVec(0, -3, 4),
     IVec(0, -3, -4)}

\* The records a hit leaves: the stored normal is never along the ray.
ScatterHits(m) ==
    {[hit_point |-> IVec(1, 0, 0), surface_normal |-> n,
      distance_from_ray |-> One, is_front_face |-> f,
      object_color |-> ZeroVec, material_ptr |-> m] :
        n \in ScatterNormals, f \in BOOLEAN}

\* Values of random_double() for Matte: the radius and the turn.
MatteDraws ==
    {<<u1, u2>> : u1 \in {Zero, R(9, 25), R(16, 25)},
                  u2 \in {Zero, R(1, 4), R(1, 2), R(3, 4)}}

\* Values of random_double() whose candidate point lies inside the sphere.
AcceptedDraws ==
    {<<R(3, 4), R(1, 2), R(1, 2)>>, <<R(1, 2), R(1, 4), R(1, 2)>>,
     <<R(1, 2), R(1, 2), R(3, 4)>>, <<R(1, 2), R(1, 2), R(1, 4)>>,
     <<R(13, 20), R(1, 2), R(7, 10)>>}

\* Values whose candidate point is rejected.
RejectedDraws ==
    {<<Zero, Zero, Zero>>}

ReflectiveDraws ==
    AcceptedDraws \cup {rj \o ac : rj \in RejectedDraws, ac \in AcceptedDraws}

TransparentDraws ==
    {<<Zero>>, <<R(1, 25)>>, <<R(1, 2)>>, <<R(99, 100)>>}

DrawsFor(m) ==
    CASE m.kind = "Matte" -> MatteDraws
      [] m.kind = "Reflective" -> ReflectiveDraws
      [] m.kind = "Transparent" -> TransparentDraws

\* refracted_perpendicular of refract, as Transparent::scatter calls it.
RefractedPerpendicular(m, ray_in, hit_info) ==
    Local(unit_vector(ray_in.direction), LAMBDA unit_direction :
    Local(cos_theta(ray_in, hit_info), LAMBDA cosine :
    VScale(refraction_ratio(m, hit_info),
           VAdd(unit_direction, VScale(cosine, hit_info.surface_normal)))))

\* The square roots of a Transparent::scatter call are rational.
TransparentExact(m, ray_in, hit_info, rnd) ==
    /\ Local(cos_theta(ray_in, hit_info), LAMBDA cosine :
             RIsSquare(RSub(One, RMul(cosine, cosine))))
    /\ \/ cannot_refract(m, ray_in, hit_info)
       \/ Local(cos_theta(ray_in, hit_info), LAMBDA cosine :
                RLt(rnd[1], reflectance(cosine, refraction_ratio(m, hit_info))))
       \/ Local(RefractedPerpendicular(m, ray_in, hit_info), LAMBDA across :
                RIsSquare(RAbs(RSub(One, length_squared(across)))))

\* The square roots of a scatter call are rational.
ScatterExact(m, ray_in, hit_info, rnd) ==
    /\ m.kind # "Matte" => HasUnit(ray_in.direction)
    /\ CASE m.kind = "Matte" ->
                /\ RIsSquare(rnd[1])
                /\ RIsSquare(RSub(One, rnd[1]))
                /\ HasUnit(cross(hit_info.surface_normal,
                                 IF RLt(R(9, 10), RAbs(hit_info.surface_normal.x))
                                 THEN IVec(0, 1, 0) ELSE IVec(1, 0, 0)))
         [] m.kind = "Reflective" ->
                HasUnit(random_in_unit_sphere(rnd, 0).point)
         [] m.kind = "Transparent" ->
                TransparentExact(m, ray_in, hit_info, rnd)

InitScatter ==
    /\ pc = "call"
    /\ material \in ScatterMaterials
    /\ record \in ScatterHits(material)
    /\ ray \in {Ray(IVec(1, 0, 0), d) : d \in ScatterRayDirections}
    /\ RLe(dot(ray.direction, record.surface_normal), Zero)
    /\ min_distance = R(1, 1000)
    /\ max_distance = I(1000000)
    /\ objects = << >>
    /\ hit_anything = TRUE
    /\ scatter_record = DefaultScatterRecord
    /\ did_return = FALSE
    /\ draws = << >>
    /\ fuzz = Zero
    /\ generator = Untracked
    /\ TraceIdle

\* material_ptr->scatter(ray, hit_info, scatter_info), with the values the
\* random generator returns during the call.
CallScatter ==
    /\ pc = "call"
    /\ \E rnd \in DrawsFor(material) :
          /\ ScatterExact(material, ray, record, rnd)
          /\ \E res \in {Scatter(material, ray, record, scatter_record, rnd)} :
                /\ scatter_record' = res.record
                /\ did_return' = res.ret
                /\ draws' = SubSeq(rnd, 1, res.used)
    /\ pc' = "done"
    /\ UNCHANGED << material, hitVars, traceVars >>

NextScatter ==
    CallScatter

SpecScatter ==
    InitScatter /\ [][NextScatter]_vars

\* C8: for the Matte, Reflective and Transparent materials, the attenuation
\* a scatter call reports is at most the material's base_color in each of
\* the three channels.
C8_AttenuationWithinBaseColor ==
    pc = "done" =>
        /\ RLe(scatter_record.attenuation.x, base_color(material).x)
        /\ RLe(scatter_record.attenuation.y, base_color(material).y)
        /\ RLe(scatter_record.attenuation.z, base_color(material).z)

\* A Matte surface scattered and reported its colour, below 1 everywhere.
C8_Witness ==
    /\ pc = "done"
    /\ material = MatB
    /\ did_return
    /\ scatter_record.attenuation = MatB.surface_color
    /\ RLt(scatter_record.attenuation.x, One)

\* The mirror image of the normalised incoming direction in the surface.
MirrorDirection ==
    LET d == unit_vector(ray.direction)
        n == record.surface_normal
        twice == RMul(I(2), RAdd(RAdd(RMul(d.x, n.x), RMul(d.y, n.y)),
                                 RMul(d.z, n.z)))
    IN  Vec3(RSub(d.x, RMul(twice, n.x)), RSub(d.y, RMul(twice, n.y)),
             RSub(d.z, RMul(twice, n.z)))

\* C9: a Transparent scatter whose refraction ratio times sin(theta) is
\* above 1 sends the ray out in the mirror direction whatever the random
\* generator would return; the refracted direction is never produced.
C9_TotalInternalReflection ==
    (/\ pc = "done"
     /\ material.kind = "Transparent"
     /\ cannot_refract(material, ray, record)) =>
        /\ did_return
        /\ scatter_record.did_scatter
        /\ scatter_record.scattered_ray.direction = MirrorDirection

\* Glass of index 1.5 hit from inside at sin(theta) = 4/5: the ratio times
\* the sine is 6/5.
C9_Witness ==
    /\ pc = "done"
    /\ material = MatE
    /\ ~record.is_front_face
    /\ RMul(refraction_ratio(material, record), sin_theta(ray, record)) = R(6, 5)
    /\ scatter_record.scattered_ray.direction = MirrorDirection

\* C24: a Transparent scatter whose refraction ratio times sin(theta) is at
\* most 1 draws one uniform value u and sends the ray out in the mirror
\* direction exactly when the Schlick reflectance is above u, in the
\* refracted direction otherwise; the ratio is 1/refractive_index on a front
\* face and refractive_index on a back face; the call returns true either way.
C24_FresnelChoice ==
    (pc = "done" /\ material.kind = "Transparent") =>
        LET eta == IF record.is_front_face
                   THEN RDiv(One, material.refractive_index)
                   ELSE material.refractive_index
            d == unit_vector(ray.direction)
            n == record.surface_normal
            along == RAdd(RAdd(RMul(d.x, n.x), RMul(d.y, n.y)), RMul(d.z, n.z))
            cosine == IF RLt(One, RNeg(along)) THEN One ELSE RNeg(along)
            sine_squared == RSub(One, RMul(cosine, cosine))
            total == RLt(One, RMul(RMul(eta, eta), sine_squared))
            r0 == RMul(RDiv(RSub(One, eta), RAdd(One, eta)),
                       RDiv(RSub(One, eta), RAdd(One, eta)))
            g == RSub(One, cosine)
            schlick == RAdd(r0, RMul(RSub(One, r0),
                            RMul(RMul(RMul(g, g), RMul(g, g)), g)))
            out == scatter_record.scattered_ray.direction
            out_along == RAdd(RAdd(RMul(out.x, n.x), RMul(out.y, n.y)),
                              RMul(out.z, n.z))
            across == Vec3(RMul(eta, RAdd(d.x, RMul(cosine, n.x))),
                           RMul(eta, RAdd(d.y, RMul(cosine, n.y))),
                           RMul(eta, RAdd(d.z, RMul(cosine, n.z))))
            across_squared == RAdd(RAdd(RMul(across.x, across.x),
                                        RMul(across.y, across.y)),
                                   RMul(across.z, across.z))
        IN  ~total =>
              /\ Len(draws) = 1
              /\ did_return
              /\ scatter_record.did_scatter
              /\ RLt(draws[1], schlick) => out = MirrorDirection
              /\ ~RLt(draws[1], schlick) =>
                    /\ out # MirrorDirection
                    /\ RLe(out_along, Zero)
                    /\ RMul(out_along, out_along)
                          = RAbs(RSub(One, across_squared))
                    /\ VSub(out, VScale(out_along, n)) = across

\* Glass of index 1.5 hit from inside along the normal: the reflectance is
\* 1/25, the draw is 1/25, which is not below it, and the ray goes straight
\* on.
C24_Witness ==
    /\ pc = "done"
    /\ material = MatE
    /\ ~record.is_front_face
    /\ ~cannot_refract(material, ray, record)
    /\ draws = <<R(1, 25)>>
    /\ reflectance(cos_theta(ray, record), refraction_ratio(material, record))
          = R(1, 25)
    /\ did_return
    /\ scatter_record.scattered_ray.direction = unit_vector(ray.direction)

----------------------------------------------------------------------------
(* SpecMirror: a Reflective built from a drawn fuzz argument, hit, and     *)
(* scattered on once                                                       *)

\* Arguments of the constructor: below 0, the default 0, the 0.15 of the
\* demo scene, 1, above 1, NaN and +infinity.
FuzzArguments ==
    {R(-1, 2), Zero, R(3, 20), R(1, 2), One, R(3, 2), I(2), NaN, Inf}

MirrorColor ==
    Vec3(R(4, 5), R(4, 5), R(4, 5))

InitMirror ==
    /\ pc = "new"
    /\ fuzz \in FuzzArguments
    /\ generator = Untracked
    /\ material = NullMaterial
    /\ record = DefaultHitRecord
    /\ ray \in {Ray(IVec(1, 0, 0), d) : d \in ScatterRayDirections}
    /\ min_distance = R(1, 1000)
    /\ max_distance = I(1000000)
    /\ objects = << >>
    /\ hit_anything = FALSE
    /\ scatter_record = DefaultScatterRecord
    /\ did_return = FALSE
    /\ draws = << >>
    /\ TraceIdle

\* std::make_shared<Reflective>(color, fuzz).
ConstructReflective ==
    /\ pc = "new"
    /\ material' = Reflective(MirrorColor, fuzz)
    /\ pc' = "built"
    /\ UNCHANGED << hitVars, scatter_record, did_return, draws, traceVars >>

\* The ray hits a surface of the material from the side its normal is on.
HitMirror ==
    /\ pc = "built"
    /\ record' \in ScatterHits(material)
    /\ RLe(dot(ray.direction, record'.surface_normal), Zero)
    /\ hit_anything' = TRUE
    /\ pc' = "call"
    /\ UNCHANGED << ray, min_distance, max_distance, objects, scatterVars,
                    traceVars >>

NextMirror ==
    \/ ConstructReflective
    \/ HitMirror
    \/ CallScatter

SpecMirror ==
    InitMirror /\ [][NextMirror]_vars

\* C23: whatever fuzz argument the Reflective constructor is given, the
\* fuzziness scatter uses lies in [0, 1], and an argument above 1 is stored
\* as exactly 1.
C23_FuzzinessInUnitInterval ==
    pc \in {"built", "call", "done"} =>
        /\ material.fuzziness # NaN
        /\ IsFinite(material.fuzziness)
        /\ RLe(Zero, material.fuzziness)
        /\ RLe(material.fuzziness, One)
        /\ (fuzz = Inf \/ (IsFinite(fuzz) /\ RLt(One, fuzz)))
              => material.fuzziness = One

\* The part of C23 the constructor keeps: the fuzziness is never above 1 and
\* never NaN, an argument that is not below 1 is stored as 1, and an
\* argument below 1, negative ones included, is stored as it is.
C23_FuzzinessClampedFromAbove ==
    pc \in {"built", "call", "done"} =>
        /\ IsFinite(material.fuzziness)
        /\ RLe(material.fuzziness, One)
        /\ (IsFinite(fuzz) /\ RLt(fuzz, One)) => material.fuzziness = fuzz
        /\ ~(IsFinite(fuzz) /\ RLt(fuzz, One)) => material.fuzziness = One

\* A mirror built with fuzz -1/2 has scattered with fuzziness -1/2.
C23_NegativeFuzziness ==
    /\ pc = "done"
    /\ fuzz = R(-1, 2)
    /\ material.fuzziness = R(-1, 2)
    /\ draws # << >>

----------------------------------------------------------------------------
(* SpecLight: one call of compute_diffuse_lighting on a drawn scene       *)

\* Scenes hold up to MaxLights lights.
MaxLights ==
    2

\* The shaded point: on a floor, the stored normal pointing up.
LightHit ==
    [hit_point |-> IVec(0, 0, 0), surface_normal |-> IVec(0, 1, 0),
     distance_from_ray |-> One, is_front_face |-> TRUE,
     object_color |-> ZeroVec, material_ptr |-> MatB]

\* Lights straight above, above at the angle of the 3-4-5 triangle, below
\* the surface, at the shaded point itself, and level with the surface.
LightSet ==
    {Light(IVec(0, 2, 0), IVec(4, 4, 4)), Light(IVec(3, 4, 0), IVec(25, 50, 0)),
     Light(IVec(0, -2, 0), IVec(4, 4, 4)), Light(IVec(0, 0, 0), IVec(1, 1, 1)),
     Light(IVec(2, 0, 0), IVec(4, 4, 4))}

\* The floor the point lies on, a panel half way up to the lights, a panel
\* half a millimetre above the floor, a panel above the nearer light, a
\* ball half way up, and panels half a millimetre and one millimetre above
\* the start of the shadow ray, level with the nearer light, and half a
\* millimetre above it.
OccluderSet ==
    {XZRect(I(-4), I(4), I(-4), I(4), Zero, MatB, FALSE),
     XZRect(I(-1), I(1), I(-1), I(1), One, MatB, FALSE),
     XZRect(I(-1), I(1), I(-1), I(1), R(1, 2000), MatC, FALSE),
     XZRect(I(-1), I(1), I(-1), I(1), I(3), MatB, FALSE),
     Sphere(IVec(0, 1, 0), R(1, 2), MatE),
     XZRect(I(-1), I(1), I(-1), I(1), R(3, 2000), MatB, FALSE),
     XZRect(I(-1), I(1), I(-1), I(1), R(1, 500), MatB, FALSE),
     XZRect(I(-1), I(1), I(-1), I(1), I(2), MatB, FALSE),
     XZRect(I(-1), I(1), I(-1), I(1), R(4001, 2000), MatB, FALSE)}

LightInputs ==
    ListsOf(LightSet, MaxLights)

OccluderInputs ==
    ListsOf(OccluderSet, MaxObjects)

\* The ray compute_diffuse_lighting casts toward a light.
ShadowRay(hit_info, light) ==
    Ray(VAdd(hit_info.hit_point, VScale(shadow_bias, hit_info.surface_normal)),
        unit_vector(VSub(light.position, hit_info.hit_point)))

\* The square roots of a compute_diffuse_lighting call are rational.
LightExact(scene, hit_info) ==
    \A i \in 1..Len(scene.lights) :
        \/ scene.lights[i].position = hit_info.hit_point
        \/ /\ HasUnit(VSub(scene.lights[i].position, hit_info.hit_point))
           /\ \A shadow_ray \in {ShadowRay(hit_info, scene.lights[i])} :
                  ListExact(scene.objects, shadow_ray)

InitLight ==
    /\ pc = "call"
    /\ objects \in OccluderInputs
    /\ lights \in LightInputs
    /\ record = LightHit
    /\ LightExact(Scene(objects, lights), record)
    /\ ray = NoRay
    /\ min_distance = Zero
    /\ max_distance = Zero
    /\ hit_anything = TRUE
    /\ ScatterIdle
    /\ depth = 0
    /\ frames = << >>
    /\ color = ZeroVec
    /\ image_buffer = << >>
    /\ RenderIdle

\* compute_diffuse_lighting(scene, hit_info)
CallComputeDiffuseLighting ==
    /\ pc = "call"
    /\ color' = compute_diffuse_lighting(Scene(objects, lights), record)
    /\ pc' = "done"
    /\ UNCHANGED << hitVars, scatterVars, lights, fuzz, generator, depth, frames, image_buffer,
                    renderVars >>

NextLight ==
    CallComputeDiffuseLighting

SpecLight ==
    InitLight /\ [][NextLight]_vars

\* The light is in front of the shaded surface and away from the point.
Lit(light) ==
    /\ light.position # record.hit_point
    /\ RLt(Zero, dot(record.surface_normal,
                     unit_vector(VSub(light.position, record.hit_point))))

\* n.l x intensity / distance^2 for a light.
Unoccluded(light) ==
    LET to_light == VSub(light.position, record.hit_point)
        n_dot_l == dot(record.surface_normal, unit_vector(to_light))
        distance_squared == dot(to_light, to_light)
    IN  Vec3(RDiv(RMul(n_dot_l, light.intensity.x), distance_squared),
             RDiv(RMul(n_dot_l, light.intensity.y), distance_squared),
             RDiv(RMul(n_dot_l, light.intensity.z), distance_squared))

\* Some scene object meets the straight segment from the shaded point to the
\* light strictly between its two ends.
LiesBetween(light) ==
    \E i \in 1..Len(objects) :
        ObjectHit(objects[i],
                  Ray(record.hit_point, VSub(light.position, record.hit_point)),
                  R(1, 10000), R(9999, 10000), DefaultHitRecord).hit

\* Some scene object is hit by the shadow ray, which starts shadow_bias
\* along the normal from the point, at a distance between shadow_bias and
\* the distance to the light less shadow_bias.
ShadowRayBlocked(light) ==
    \E i \in 1..Len(objects) :
        ObjectHit(objects[i], ShadowRay(record, light), shadow_bias,
                  RSub(length(VSub(light.position, record.hit_point)), shadow_bias),
                  DefaultHitRecord).hit

RECURSIVE SumVec(_, _)
SumVec(f, n) ==
    IF n = 0 THEN ZeroVec ELSE VAdd(SumVec(f, n - 1), f[n])

\* The light gathered when each lit light adds n.l x intensity / distance^2
\* unless Occluded holds of it, and adds zero otherwise.
GatheredLight(Occluded(_)) ==
    SumVec([i \in 1..Len(lights) |->
               IF Lit(lights[i]) /\ ~Occluded(lights[i])
               THEN Unoccluded(lights[i]) ELSE ZeroVec],
           Len(lights))

Blocking(light) ==
    {i \in DOMAIN objects :
        ObjectHit(objects[i], ShadowRay(record, light), shadow_bias,
                  RSub(length(VSub(light.position, record.hit_point)),
                       shadow_bias),
                  DefaultHitRecord).hit}

\* The scene objects the shadow ray hits nearer than shadow_bias.
HitNearer(light) ==
    {i \in DOMAIN objects :
        /\ i \notin Blocking(light)
        /\ ObjectHit(objects[i], ShadowRay(record, light), Zero, shadow_bias,
                     DefaultHitRecord).hit}

\* The scene objects the shadow ray hits beyond the light less shadow_bias.
HitBeyond(light) ==
    {i \in DOMAIN objects :
        /\ i \notin Blocking(light)
        /\ ObjectHit(objects[i], ShadowRay(record, light),
                     RSub(length(VSub(light.position, record.hit_point)),
                          shadow_bias),
                     I(1000000), DefaultHitRecord).hit}

----------------------------------------------------------------------------
(* Renderer: the path integrator                                           *)

white ==
    IVec(1, 1, 1)

sky_blue ==
    Vec3(R(1, 2), R(7, 10), One)

\* The blend of calculate_sky_color for the y component of the unit
\* direction.
SkyBlend(unit_y) ==
    Local(RMul(R(1, 2), RAdd(unit_y, One)), LAMBDA blend_factor :
    VAdd(VScale(RSub(One, blend_factor), white), VScale(blend_factor, sky_blue)))

\* calculate_sky_color.  A direction with a NaN component has a NaN length
\* and a NaN unit vector, and the colour is NaN in every channel.  A
\* direction with an infinite component has an infinite length: its unit
\* vector is 0.0 * direction, whose y is 0 for a finite y and NaN for an
\* infinite one.
calculate_sky_color(r) ==
    IF IsFiniteVec(r.direction) THEN SkyBlend(unit_vector(r.direction).y)
    ELSE IF NaN \notin {r.direction.x, r.direction.y, r.direction.z}
            /\ IsFinite(r.direction.y)
    THEN SkyBlend(Zero)
    ELSE Vec3(NaN, NaN, NaN)

\* The range calculate_ray_color hands to the scene's hit.
min_hit_distance ==
    R(1, 1000)

max_hit_distance ==
    I(1000000)

\* The depth test of calculate_ray_color letting depth 0 through.
DepthExhaustedBelowZero(d) ==
    d < 0

\* The depth test that opens calculate_ray_color.
DepthExhausted(d) ==
    d <= 0

\* direct_component of calculate_ray_color: the gathered light tinted by the
\* base colour for a diffuse material, black for any other.
direct_component(scene, hit_info) ==
    IF is_diffuse(hit_info.material_ptr)
    THEN VMul(base_color(hit_info.material_ptr),
              compute_diffuse_lighting(scene, hit_info))
    ELSE ZeroVec

\* The value calculate_ray_color returns after its recursive call:
\* direct_component + attenuation * indirect, here without the attenuation.
scattered_color_unattenuated(direct, attenuation, indirect) ==
    VAdd(direct, indirect)

\* direct_component + scatter_record.attenuation * (the recursive result).
scattered_color(direct, attenuation, indirect) ==
    VAdd(direct, VMul(attenuation, indirect))

\* A call of calculate_ray_color suspended in its recursive call: its own
\* arguments and the two locals the return statement combines.
Frame(r, d, direct, attenuation) ==
    [ray |-> r, depth |-> d, direct_component |-> direct,
     attenuation |-> attenuation]

----------------------------------------------------------------------------
(* SpecTrace: calculate_ray_color, the recursion kept as a stack of frames *)

\* The largest max_depth the traced rays start with.
MaxDepth ==
    3

TraceFloor(mat) ==
    XZRect(I(-4), I(4), I(-4), I(4), Zero, mat, FALSE)

TracePanel ==
    XZRect(I(-1), I(1), I(-1), I(1), I(3), MatA, FALSE)

TraceBall ==
    Sphere(IVec(0, 1, 0), R(1, 2), MatE)

LampAbove ==
    Light(IVec(0, 2, 0), IVec(4, 4, 4))

LampAside ==
    Light(IVec(3, 4, 0), IVec(25, 50, 0))

\* An empty scene; a matte, a mirror, a rough mirror and a glass floor, lit
\* and unlit; a floor under a panel; a glass ball over a floor.
TraceScenes ==
    {Scene(<< >>, << >>),
     Scene(<< >>, <<LampAbove>>),
     Scene(<<TraceFloor(MatB)>>, << >>),
     Scene(<<TraceFloor(MatB)>>, <<LampAbove>>),
     Scene(<<TraceFloor(MatB), TracePanel>>, <<LampAbove, LampAside>>),
     Scene(<<TraceFloor(MatC)>>, <<LampAbove>>),
     Scene(<<TraceFloor(MatG)>>, <<LampAbove>>),
     Scene(<<TraceFloor(MatE)>>, <<LampAside>>),
     Scene(<<TraceBall, TraceFloor(MatB)>>, <<LampAbove>>)}

\* Camera rays: straight down, straight down and not normalised, down at the
\* angle of the 3-4-5 triangle, and up into the sky.
TraceRays ==
    {Ray(IVec(0, 4, 0), IVec(0, -1, 0)), Ray(IVec(0, 4, 0), IVec(0, -2, 0)),
     Ray(IVec(3, 4, 0), IVec(-3, -4, 0)), Ray(IVec(0, 4, 0), IVec(0, -4, 3)),
     Ray(IVec(0, 4, 0), IVec(0, 1, 0))}

\* The values random_double() may return during one scatter call.
TraceDrawsFor(m) ==
    CASE m.kind = "Matte" ->
            {<<Zero, Zero>>, <<R(9, 25), Zero>>, <<R(16, 25), R(1, 2)>>}
      [] m.kind = "Reflective" ->
            {<<R(1, 2), R(1, 2), R(3, 4)>>, <<R(1, 2), R(1, 4), R(1, 2)>>}
      [] m.kind = "Transparent" -> {<<Zero>>, <<R(1, 2)>>}

InitTrace ==
    /\ pc = "call"
    /\ \E scene \in TraceScenes :
          /\ objects = scene.objects
          /\ lights = scene.lights
    /\ ray \in TraceRays
    /\ depth \in -1..MaxDepth
    /\ frames = << >>
    /\ color = ZeroVec
    /\ min_distance = min_hit_distance
    /\ max_distance = max_hit_distance
    /\ record = DefaultHitRecord
    /\ hit_anything = FALSE
    /\ ScatterIdle
    /\ image_buffer = << >>
    /\ RenderIdle

\* calculate_ray_color after a hit: the direct term, the scatter call, and
\* either the recursive call on the scattered ray with depth - 1, this call
\* left waiting on the stack, or the return of the direct term alone.
ShadeHit(hit_info) ==
    /\ material' = hit_info.material_ptr
    /\ lighting_calls' = IF is_diffuse(hit_info.material_ptr)
                         THEN lighting_calls + 1
                         ELSE lighting_calls
    /\ is_diffuse(hit_info.material_ptr)
          => LightExact(Scene(objects, lights), hit_info)
    /\ \E direct \in {direct_component(Scene(objects, lights), hit_info)} :
       \E rnd \in TraceDrawsFor(hit_info.material_ptr) :
          /\ ScatterExact(hit_info.material_ptr, ray, hit_info, rnd)
          /\ \E sc \in {Scatter(hit_info.material_ptr, ray, hit_info,
                               DefaultScatterRecord, rnd)} :
                /\ MayReturn(generator, rnd, sc.used)
                /\ generator' = AfterDraws(generator, rnd, sc.used)
                /\ scatter_record' = sc.record
                /\ did_return' = sc.ret
                /\ draws' = SubSeq(rnd, 1, sc.used)
                /\ IF sc.ret
                   THEN /\ frames' = Append(frames,
                               Frame(ray, depth, direct, sc.record.attenuation))
                        /\ ray' = sc.record.scattered_ray
                        /\ depth' = depth - 1
                        /\ pc' = "call"
                        /\ UNCHANGED color
                   ELSE /\ color' = direct
                        /\ pc' = "return"
                        /\ UNCHANGED << ray, depth, frames >>

\* calculate_ray_color(ray, scene, depth) from its entry to its return or to
\* its recursive call.
CallCalculateRayColor ==
    /\ pc = "call"
    /\ IF DepthExhausted(depth)
       THEN /\ color' = ZeroVec
            /\ pc' = "return"
            /\ UNCHANGED << ray, depth, frames, record, hit_anything,
                            scatterVars, generator, hit_queries,
                            lighting_calls >>
       ELSE /\ IsFiniteVec(ray.direction) \/ objects = << >>
            /\ ListExact(objects, ray)
            /\ hit_queries' = hit_queries + 1
            /\ \E res \in {ListHit(objects, ray, min_hit_distance,
                                  max_hit_distance, DefaultHitRecord)} :
                  /\ record' = res.record
                  /\ hit_anything' = res.hit
                  /\ IF res.hit
                     THEN ShadeHit(res.record)
                     ELSE /\ IsFiniteVec(ray.direction)
                                => HasUnit(ray.direction)
                          /\ color' = calculate_sky_color(ray)
                          /\ pc' = "return"
                          /\ UNCHANGED << ray, depth, frames, scatterVars,
                                          generator, lighting_calls >>
    /\ UNCHANGED << objects, lights, fuzz, min_distance, max_distance, image_buffer,
                    imageVars >>

\* The return of calculate_ray_color: to the waiting call, which adds its
\* direct term to the attenuated result and returns in turn, or to
\* render_pixel when no call is waiting.
ReturnRayColor ==
    /\ pc = "return"
    /\ IF frames = << >>
       THEN /\ pc' = "done"
            /\ UNCHANGED << ray, depth, frames, color >>
       ELSE \E caller \in {frames[Len(frames)]} :
               /\ color' = scattered_color(caller.direct_component,
                                           caller.attenuation, color)
               /\ ray' = caller.ray
               /\ depth' = caller.depth
               /\ frames' = SubSeq(frames, 1, Len(frames) - 1)
               /\ pc' = "return"
    /\ UNCHANGED << objects, lights, fuzz, generator, min_distance,
                    max_distance, record,
                    hit_anything, scatterVars, image_buffer, renderVars >>

NextTrace ==
    \/ CallCalculateRayColor
    \/ ReturnRayColor

SpecTrace ==
    InitTrace /\ [][NextTrace]_vars

\* C1: a call of calculate_ray_color with depth <= 0 returns black whatever
\* the ray and the scene are, and a ray traced with max_depth <= 0 ends
\* black.  depth is the argument of the call that is returning.
C1_ExhaustedDepthIsBlack ==
    (pc \in {"return", "done"} /\ depth <= 0) => color = ZeroVec

\* A ray that would hit a lit matte floor is traced with max_depth = 0, and
\* a recursive call reaches depth 0 on a ray into the sky: both are black.
C1_Witness ==
    /\ pc = "return"
    /\ depth = 0
    /\ color = ZeroVec
    /\ lights # << >>
    /\ \/ /\ frames = << >>
          /\ ListHit(objects, ray, min_hit_distance, max_hit_distance,
                     DefaultHitRecord).hit
       \/ /\ Len(frames) = MaxDepth
          /\ ~ListHit(objects, ray, min_hit_distance, max_hit_distance,
                      DefaultHitRecord).hit

\* The hit the returning call of calculate_ray_color found for its ray.
OwnRecord ==
    ListHit(objects, ray, min_hit_distance, max_hit_distance,
            DefaultHitRecord).record

\* C14: a call of calculate_ray_color with depth > 0 returns the sky colour
\* of its ray on a miss and the direct term alone on a hit whose material
\* does not scatter; on a hit whose material scatters it calls itself with
\* exactly depth - 1 and the ray scatter produced, and returns the direct
\* term plus the attenuation times what that call returned.
C14_RayColorCases ==
    [][/\ (pc = "call" /\ depth > 0 /\ pc' = "return" /\ ~hit_anything')
            => color' = calculate_sky_color(ray)
       /\ (pc = "call" /\ depth > 0 /\ pc' = "return" /\ hit_anything')
            => /\ ~did_return'
               /\ color' = direct_component(Scene(objects, lights), record')
       /\ (pc = "call" /\ pc' = "call")
            => /\ depth > 0 /\ hit_anything' /\ did_return'
               /\ depth' = depth - 1
               /\ ray' = scatter_record'.scattered_ray
               /\ frames' = Append(frames,
                      Frame(ray, depth,
                            direct_component(Scene(objects, lights), record'),
                            scatter_record'.attenuation))
       /\ (pc = "return" /\ frames # << >>)
            => /\ color' = VAdd(frames[Len(frames)].direct_component,
                                VMul(frames[Len(frames)].attenuation, color))
               /\ ray' = frames[Len(frames)].ray
               /\ depth' = frames[Len(frames)].depth
               /\ frames' = SubSeq(frames, 1, Len(frames) - 1)
               /\ pc' = "return"]_vars

\* A ray hits the lit matte floor with depth 2, the scattered ray leaves for
\* the sky, and the call returns its direct term plus the floor's colour
\* times the sky colour of the scattered ray; neither term is black.
C14_Witness ==
    /\ pc = "return"
    /\ frames = << >>
    /\ depth = 2
    /\ material.kind = "Matte"
    /\ did_return
    /\ ~hit_anything
    /\ direct_component(Scene(objects, lights), OwnRecord) # ZeroVec
    /\ color = VAdd(direct_component(Scene(objects, lights), OwnRecord),
                    VMul(scatter_record.attenuation,
                         calculate_sky_color(scatter_record.scattered_ray)))
    /\ color # direct_component(Scene(objects, lights), OwnRecord)

\* C15: a hit on a material that is not Matte, the only diffuse material,
\* has the direct term (0,0,0), the one the call returns or adds the
\* attenuated recursive result to, and compute_diffuse_lighting is not
\* called for it, whatever lights the scene holds.
C15_DirectOnlyForDiffuse ==
    [][(pc = "call" /\ depth > 0 /\ hit_anything')
          => /\ is_diffuse(record'.material_ptr)
                    = (record'.material_ptr.kind = "Matte")
             /\ record'.material_ptr.kind # "Matte"
                    => /\ lighting_calls' = lighting_calls
                       /\ pc' = "return" => color' = ZeroVec
                       /\ pc' = "call"
                            => frames'[Len(frames')].direct_component = ZeroVec
             /\ record'.material_ptr.kind = "Matte"
                    => lighting_calls' = lighting_calls + 1]_vars

\* The first hit of a traced ray.
FirstRecord ==
    ListHit(objects, frames[1].ray, min_hit_distance, max_hit_distance,
            DefaultHitRecord).record

\* A ray hits a mirror under a lamp that would light a matte surface at that
\* point: the call adds nothing for the lamp and never asks for its light.
C15_Witness ==
    /\ pc = "call"
    /\ Len(frames) = 1
    /\ material.kind = "Reflective"
    /\ lights # << >>
    /\ lighting_calls = 0
    /\ hit_queries = 1
    /\ frames[1].direct_component = ZeroVec
    /\ LightExact(Scene(objects, lights), FirstRecord)
    /\ compute_diffuse_lighting(Scene(objects, lights), FirstRecord) # ZeroVec

\* The direction Reflective::scatter perturbs: the mirror image of the
\* normalised incoming direction plus fuzziness times the unit vector drawn.
PerturbedDirection(m, ray_in, hit_info, rnd) ==
    VAdd(reflect(unit_vector(ray_in.direction), hit_info.surface_normal),
         VScale(m.fuzziness, random_unit_vector(rnd).point))

\* C22: Reflective::scatter returns true exactly when the perturbed reflected
\* direction has a dot product above 0 with the surface normal, did_scatter
\* equals the value returned, and when it returns false calculate_ray_color
\* returns for that hit without calling itself.
C22_MirrorScattersAboveSurface ==
    [][(/\ pc = "call"
        /\ depth > 0
        /\ hit_anything'
        /\ record'.material_ptr.kind = "Reflective")
          => /\ did_return'
                   = RLt(Zero, dot(PerturbedDirection(record'.material_ptr, ray,
                                                      record', draws'),
                                   record'.surface_normal))
             /\ scatter_record'.did_scatter = did_return'
             /\ scatter_record'.scattered_ray.direction
                   = PerturbedDirection(record'.material_ptr, ray, record',
                                        draws')
             /\ ~did_return'
                   => /\ pc' = "return"
                      /\ frames' = frames
                      /\ depth' = depth
                      /\ ray' = ray
                      /\ hit_queries' = hit_queries + 1
             /\ did_return' => pc' = "call"]_vars

\* A ray straight down on the rough mirror is thrown straight back by the
\* mirror and pushed straight down by the unit vector drawn: the perturbed
\* direction lies in the surface, scatter returns false and the call
\* returns at once.
C22_Witness ==
    /\ pc = "return"
    /\ depth > 0
    /\ frames = << >>
    /\ hit_anything
    /\ material = MatG
    /\ ~did_return
    /\ ~scatter_record.did_scatter
    /\ dot(scatter_record.scattered_ray.direction, record.surface_normal) = Zero
    /\ hit_queries = 1

----------------------------------------------------------------------------
(* SpecBounce: calculate_ray_color run to its end.  The scenes have no     *)
(* lights and matte surfaces, so that every step is exact and a call that  *)
(* has begun is always able to go on.                                      *)

BounceFloor ==
    XZRect(I(-40), I(40), I(-40), I(40), Zero, MatB, FALSE)

BounceCeiling ==
    XZRect(I(-40), I(40), I(-40), I(40), I(3), MatA, FALSE)

\* No object; a floor; a floor and a ceiling, between which every scattered
\* ray hits again.
BounceScenes ==
    {Scene(<< >>, << >>),
     Scene(<<BounceFloor>>, << >>),
     Scene(<<BounceFloor, BounceCeiling>>, << >>)}

BounceRays ==
    {Ray(IVec(0, 1, 0), d) :
        d \in {IVec(0, -1, 0), IVec(0, -2, 0), IVec(-3, -4, 0), IVec(0, 1, 0)}}

InitBounce ==
    /\ pc = "call"
    /\ \E scene \in BounceScenes :
          /\ objects = scene.objects
          /\ lights = scene.lights
    /\ ray \in BounceRays
    /\ depth \in 0..MaxDepth
    /\ frames = << >>
    /\ color = ZeroVec
    /\ min_distance = min_hit_distance
    /\ max_distance = max_hit_distance
    /\ record = DefaultHitRecord
    /\ hit_anything = FALSE
    /\ ScatterIdle
    /\ image_buffer = << >>
    /\ RenderIdle

\* In these scenes a step of calculate_ray_color is possible in every state
\* but the last, where the outermost call has returned.
CanStep ==
    pc # "done"

\* The program is sequential: a call that can take its next step takes it.
\* This is WF_vars(NextTrace) with CanStep for ENABLED <<NextTrace>>_vars.
SpecBounce ==
    /\ InitBounce
    /\ [][NextTrace]_vars
    /\ ([]<>~CanStep \/ []<><<NextTrace>>_vars)

\* The depth the outermost call was given.
TopDepth ==
    IF frames = << >> THEN depth ELSE frames[1].depth

\* Each waiting call has one less depth than its caller, the active call one
\* less than the last of them, and the scene has been asked for a hit at
\* most as often as the outermost depth allows.
DepthBudget ==
    /\ \A i \in 1..Len(frames) : frames[i].depth = TopDepth - (i - 1)
    /\ depth = TopDepth - Len(frames)
    /\ depth >= 0
    /\ hit_queries <= TopDepth

\* C17: a call calculate_ray_color(ray, scene, d) with d >= 0 ends: depth
\* falls by one with every bounce, the scene is queried at most d times
\* along the path, and the outermost call returns.
C17_RayColorTerminates ==
    []DepthBudget /\ <>(pc = "done")

\* Between floor and ceiling every bounce hits: the ray given MaxDepth is
\* ended by its depth alone, after MaxDepth queries.
C17_Witness ==
    /\ pc = "done"
    /\ depth = MaxDepth
    /\ hit_queries = MaxDepth
    /\ Len(objects) = 2

----------------------------------------------------------------------------
(* SpecColor: write_color on a drawn colour, in both builds of Color.cpp   *)

\* The values of unsigned char.
Byte ==
    0..255

\* std::clamp(v, lo, hi) as (v < lo) ? lo : (hi < v) ? hi : v; both
\* comparisons are false of NaN, which is handed back.
clamp(v, lo, hi) ==
    IF v = NaN THEN NaN
    ELSE IF v = Inf THEN hi
    ELSE IF v = NegInf THEN lo
    ELSE IF RLt(v, lo) THEN lo
    ELSE IF RLt(hi, v) THEN hi
    ELSE v

\* clamped_value * 256.0
TimesByteRange(x) ==
    EMul(x, I(256))

\* static_cast<unsigned char>(double): the value truncated toward zero when
\* that is a value of unsigned char.  The conversion of any other value, NaN
\* included, is undefined: the outcome may be any byte.
static_cast_unsigned_char(x) ==
    IF IsFinite(x) /\ RLt(I(-1), x) /\ RLt(x, I(256))
    THEN {IF x.n < 0 THEN 0 ELSE x.n \div x.d}
    ELSE Byte

\* convert_to_byte clamping to [0, 1].
convert_to_byte_clamp_to_one(color_value) ==
    Local(clamp(color_value, Zero, One), LAMBDA clamped_value :
    static_cast_unsigned_char(TimesByteRange(clamped_value)))

\* convert_to_byte of the build without gamma correction: the set of bytes
\* the call may return.
convert_to_byte(color_value) ==
    Local(clamp(color_value, Zero, R(999, 1000)), LAMBDA clamped_value :
    static_cast_unsigned_char(TimesByteRange(clamped_value)))

\* convert_to_byte of the build with gamma correction.
convert_to_byte_gamma(color_value) ==
    Local(RSqrt(color_value), LAMBDA gamma_corrected :
    Local(clamp(gamma_corrected, Zero, R(999, 1000)), LAMBDA clamped_value :
    static_cast_unsigned_char(TimesByteRange(clamped_value))))

\* Channel values: the ends of the range, values inside it, values above
\* it, a value below it, and the least value that is not mapped to 0.
ChannelValues ==
    {Zero, One, R(1, 4), R(9, 16), R(1, 2), R(999, 1000), I(4), I(1000000),
     I(-1), R(-1, 4), R(1, 256), R(1, 65536)}

Below(v) ==
    IF v.n < 0 THEN 1 ELSE 0

\* Colours with at most one channel below zero.
ColorInputs ==
    {c \in {Vec3(r, g, b) : r \in ChannelValues, g \in ChannelValues,
                            b \in ChannelValues} :
        Below(c.x) + Below(c.y) + Below(c.z) <= 1}

\* The square root the gamma build takes of v is exact.
GammaExact(v) ==
    v.n < 0 \/ RIsSquare(v)

InitColor ==
    /\ pc = "call"
    /\ color \in ColorInputs
    /\ image_buffer \in {<< >>, <<0, 128, 255>>}
    /\ HitIdle
    /\ ScatterIdle
    /\ lights = << >>
    /\ depth = 0
    /\ frames = << >>
    /\ RenderIdle

\* write_color(image_buffer, pixel_color), build without gamma correction
CallWriteColor ==
    /\ pc = "call"
    /\ \E red \in convert_to_byte(color.x), green \in convert_to_byte(color.y),
          blue \in convert_to_byte(color.z) :
          image_buffer' = image_buffer \o <<red, green, blue>>
    /\ pc' = "done"
    /\ UNCHANGED << hitVars, scatterVars, lights, fuzz, generator, depth,
                    frames, color,
                    renderVars >>

\* write_color(image_buffer, pixel_color), build with gamma correction
CallWriteColorGamma ==
    /\ pc = "call"
    /\ GammaExact(color.x) /\ GammaExact(color.y) /\ GammaExact(color.z)
    /\ \E red \in convert_to_byte_gamma(color.x),
          green \in convert_to_byte_gamma(color.y),
          blue \in convert_to_byte_gamma(color.z) :
          image_buffer' = image_buffer \o <<red, green, blue>>
    /\ pc' = "done"
    /\ UNCHANGED << hitVars, scatterVars, lights, fuzz, generator, depth,
                    frames, color,
                    renderVars >>

NextColor ==
    \/ CallWriteColor
    \/ CallWriteColorGamma

SpecColor ==
    InitColor /\ [][NextColor]_vars

\* The three bytes the finished write_color appended.
Written ==
    SubSeq(image_buffer, Len(image_buffer) - 2, Len(image_buffer))

Channels ==
    <<color.x, color.y, color.z>>

----------------------------------------------------------------------------
(* Renderer: render_image                                                  *)

\* static_cast<int>(x): the value truncated toward zero.
static_cast_int(x) ==
    IF x.n < 0 THEN -((-x.n) \div x.d) ELSE x.n \div x.d

\* RenderConfig::RenderConfig(ratio, width, samples)
RenderConfig(ratio, width, samples) ==
    [image_width |-> width,
     image_height |-> static_cast_int(RDiv(I(width), ratio)),
     samples_per_pixel |-> samples,
     output_path |-> "render.png"]

\* The row render_image starts with, with one row left out.
first_row_short(cfg) ==
    cfg.image_height - 2

\* The row render_image starts with: the top of the image.
first_row(cfg) ==
    cfg.image_height - 1

\* write_color of the gamma build applied to the buffer: the buffers the
\* call may leave.
write_color(buffer, pixel_color) ==
    {buffer \o <<red, green, blue>> :
        red \in convert_to_byte_gamma(pixel_color.x),
        green \in convert_to_byte_gamma(pixel_color.y),
        blue \in convert_to_byte_gamma(pixel_color.z)}

----------------------------------------------------------------------------
(* SpecImage: render_image, one step for each pixel                        *)

\* The widest image rendered.
MaxWidth ==
    3

\* Aspect ratios: square, two to one, and three to two.
AspectRatios ==
    {One, I(2), R(3, 2)}

\* The colours render_pixel returns for a pixel: any of these.
PixelColors ==
    {IVec(0, 0, 0), Vec3(One, R(1, 4), Zero)}

InitImage ==
    /\ pc = "render"
    /\ config \in {RenderConfig(ratio, width, 1) :
                      ratio \in AspectRatios, width \in 0..MaxWidth}
    /\ camera = NoCamera
    /\ max_depth = 1
    /\ row = 0
    /\ col = 0
    /\ sample = 0
    /\ accumulated_color = ZeroVec
    /\ rendered = << >>
    /\ traced = << >>
    /\ hit_queries = 0
    /\ lighting_calls = 0
    /\ build = "none"
    /\ written_files = << >>
    /\ exit_code = -1
    /\ HitIdle
    /\ ScatterIdle
    /\ lights = << >>
    /\ depth = 0
    /\ frames = << >>
    /\ color = ZeroVec
    /\ image_buffer \in {<< >>, <<0, 128, 255>>}

imageRest ==
    << hitVars, scatterVars, lights, fuzz, generator, depth, frames, config,
       camera, max_depth,
       sample, accumulated_color, traced, hit_queries, lighting_calls,
       build, written_files, exit_code >>

\* image_data.reserve(total_pixels * 3) throws std::length_error: the two
\* sides are converted to std::size_t before they are multiplied, so the
\* product is out of reach exactly when one side is negative and the other
\* positive.
ReserveThrows(cfg) ==
    \/ cfg.image_width < 0 /\ cfg.image_height > 0
    \/ cfg.image_width > 0 /\ cfg.image_height < 0

\* render_image up to its loops: image_data is a new, empty vector.  No
\* caller catches what reserve throws, and the program is terminated.
CallRenderImage ==
    /\ pc = "render"
    /\ image_buffer' = << >>
    /\ IF ReserveThrows(config)
       THEN /\ pc' = "terminated"
            /\ UNCHANGED << row, col >>
       ELSE /\ row' = first_row(config)
            /\ col' = 0
            /\ pc' = "pixel"
    /\ UNCHANGED << imageRest, color, rendered >>

\* The body of the inner loop: render_pixel(col, row, ...) returns a colour
\* and write_color appends its three bytes.
RenderNextPixel ==
    /\ pc = "pixel"
    /\ row >= 0
    /\ col < config.image_width
    /\ \E pixel_color \in PixelColors :
          /\ color' = pixel_color
          /\ image_buffer' \in write_color(image_buffer, pixel_color)
          /\ rendered' = Append(rendered,
                [kind |-> "pixel", col |-> col, row |-> row,
                 pixel_color |-> pixel_color])
    /\ col' = col + 1
    /\ UNCHANGED << imageRest, row, pc >>

\* The inner loop ends and the outer loop moves one row down.
NextRow ==
    /\ pc = "pixel"
    /\ row >= 0
    /\ col >= config.image_width
    /\ row' = row - 1
    /\ col' = 0
    /\ UNCHANGED << imageRest, color, image_buffer, rendered, pc >>

\* The outer loop ends and render_image returns image_data.
ReturnImage ==
    /\ pc = "pixel"
    /\ row < 0
    /\ pc' = "returned"
    /\ UNCHANGED << imageRest, color, image_buffer, rendered, row, col >>

NextImage ==
    \/ CallRenderImage
    \/ RenderNextPixel
    \/ NextRow
    \/ ReturnImage

SpecImage ==
    InitImage /\ [][NextImage]_vars

\* The calls of render_pixel made for pixel (c, r).
CallsFor(c, r) ==
    {i \in 1..Len(rendered) :
        /\ rendered[i].kind = "pixel"
        /\ rendered[i].col = c
        /\ rendered[i].row = r}

\* The byte offset of pixel (c, r) in the buffer.
PixelOffset(c, r) ==
    3 * ((config.image_height - 1 - r) * config.image_width + c)

\* C11: the buffer render_image returns holds width x height x 3 bytes;
\* every pixel (col, row) was rendered exactly once, and its red, green and
\* blue bytes are the three bytes at offset
\* 3 x ((height - 1 - row) x width + col).
C11_BufferLayout ==
    pc = "returned" =>
        /\ Len(image_buffer) = config.image_width * config.image_height * 3
        /\ Len(rendered) = config.image_width * config.image_height
        /\ \A c \in 0..(config.image_width - 1),
              r \in 0..(config.image_height - 1) :
              /\ Cardinality(CallsFor(c, r)) = 1
              /\ \A i \in CallsFor(c, r) :
                    SubSeq(image_buffer, PixelOffset(c, r) + 1,
                           PixelOffset(c, r) + 3)
                        \in write_color(<< >>, rendered[i].pixel_color)

\* A 3 x 2 image whose only lit pixel is (2, 0), the last one written.
C11_Witness ==
    /\ pc = "returned"
    /\ config.image_width = 3
    /\ config.image_height = 2
    /\ Len(image_buffer) = 18
    /\ SubSeq(image_buffer, 1, 15) = [i \in 1..15 |-> 0]
    /\ SubSeq(image_buffer, 16, 18) = <<255, 128, 0>>
    /\ rendered[6].col = 2 /\ rendered[6].row = 0

----------------------------------------------------------------------------
(* Renderer: render_pixel                                                  *)

\* Camera(aspect_ratio) with the default viewport_height 2.0 and
\* focal_length 1.0.
Camera(aspect_ratio) ==
    Local(RMul(aspect_ratio, I(2)), LAMBDA viewport_width :
    Local(Vec3(viewport_width, Zero, Zero), LAMBDA horizontal :
    Local(Vec3(Zero, I(2), Zero), LAMBDA vertical :
    [origin |-> ZeroVec, horizontal |-> horizontal, vertical |-> vertical,
     lower_left_corner |->
        VSub(VSub(VSub(ZeroVec, VDiv(horizontal, I(2))),
                  VDiv(vertical, I(2))), IVec(0, 0, 1))])))

\* horizontal_coord and vertical_coord of one sample, rnd the two values
\* random_double() returns: the divisor is image_width - 1, image_height - 1.
horizontal_coord(cfg, c, rnd) ==
    EDiv(RAdd(I(c), rnd[1]), I(cfg.image_width - 1))

vertical_coord(cfg, r, rnd) ==
    EDiv(RAdd(I(r), rnd[2]), I(cfg.image_height - 1))

\* The camera ray render_pixel builds for one sample.
CameraRay(cam, cfg, c, r, rnd) ==
    Ray(cam.origin,
        EVSub(EVAdd(EVAdd(cam.lower_left_corner,
                          EVScale(horizontal_coord(cfg, c, rnd), cam.horizontal)),
                    EVScale(vertical_coord(cfg, r, rnd), cam.vertical)),
              cam.origin))

\* scale of render_pixel left at 1.0.
sample_scale_one(cfg) ==
    One

\* scale of render_pixel: 1.0 / config.samples_per_pixel.
sample_scale(cfg) ==
    EDiv(One, I(cfg.samples_per_pixel))

\* std::sqrt of every channel is a number: write_color converts the colour
\* without undefined behaviour.
Convertible(pixel_color) ==
    /\ IsFiniteVec(pixel_color)
    /\ pixel_color.x.n >= 0 /\ pixel_color.y.n >= 0 /\ pixel_color.z.n >= 0

----------------------------------------------------------------------------
(* SpecRender: render_image calling render_pixel calling                   *)
(* calculate_ray_color, on configurations of every sign                    *)

\* Sides and sample counts of the configurations handed to render_image.
RenderSides ==
    {-1, 0, 1, 2}

RenderSamples ==
    {-1, 0, 1, 2}

RenderConfigs ==
    {[image_width |-> w, image_height |-> h, samples_per_pixel |-> n,
      output_path |-> "render.png"] :
        w \in RenderSides, h \in RenderSides, n \in RenderSamples}

\* A matte wall across the whole view, two units in front of the camera.
RenderWall ==
    XYRect(I(-8), I(8), I(-8), I(8), I(-2), MatB, FALSE)

RenderScenes ==
    {Scene(<< >>, << >>), Scene(<<RenderWall>>, << >>)}

\* The two values random_double() returns while one sample is aimed.
PixelJitters ==
    {<<Zero, Zero>>, <<R(1, 2), R(1, 4)>>}

RenderDepths ==
    {1, 2}

InitRender ==
    /\ pc = "render"
    /\ config \in RenderConfigs
    /\ camera = Camera(One)
    /\ max_depth \in RenderDepths
    /\ \E scene \in RenderScenes :
          /\ objects = scene.objects
          /\ lights = scene.lights
    /\ ray = NoRay
    /\ min_distance = min_hit_distance
    /\ max_distance = max_hit_distance
    /\ record = DefaultHitRecord
    /\ hit_anything = FALSE
    /\ ScatterIdle
    /\ depth = 0
    /\ frames = << >>
    /\ color = ZeroVec
    /\ image_buffer \in {<< >>, <<0, 128, 255>>}
    /\ row = 0
    /\ col = 0
    /\ sample = 0
    /\ accumulated_color = ZeroVec
    /\ rendered = << >>
    /\ traced = << >>
    /\ hit_queries = 0
    /\ lighting_calls = 0
    /\ build = "none"
    /\ written_files = << >>
    /\ exit_code = -1

\* What the steps of render_pixel leave alone.
pixelRest ==
    << min_distance, max_distance, objects, record, hit_anything,
       scatterVars, lights, fuzz, image_buffer, config, camera, max_depth, row,
       col, build, written_files, exit_code >>

\* render_image calls render_pixel(col, row, ...): accumulated_color(0, 0, 0)
\* and the loop variable.
CallRenderPixel ==
    /\ pc = "pixel"
    /\ row >= 0
    /\ col < config.image_width
    /\ accumulated_color' = ZeroVec
    /\ sample' = 0
    /\ pc' = "sample"
    /\ traced' = << >>
    /\ UNCHANGED << pixelRest, generator, ray, depth, frames, color, rendered,
                    hit_queries, lighting_calls >>

\* One pass of the sample loop up to the call of calculate_ray_color(ray,
\* scene, max_depth).
TraceSample ==
    /\ pc = "sample"
    /\ sample < config.samples_per_pixel
    /\ \E rnd \in PixelJitters :
          /\ MayReturn(generator, rnd, 2)
          /\ generator' = AfterDraws(generator, rnd, 2)
          /\ ray' = CameraRay(camera, config, col, row, rnd)
    /\ depth' = max_depth
    /\ frames' = << >>
    /\ hit_queries' = 0
    /\ lighting_calls' = 0
    /\ pc' = "call"
    /\ UNCHANGED << pixelRest, color, sample, accumulated_color, rendered,
                    traced >>

\* accumulated_color += the colour calculate_ray_color returned; ++sample.
AddSample ==
    /\ pc = "done"
    /\ accumulated_color' = EVAdd(accumulated_color, color)
    /\ traced' = Append(traced,
                    [ray |-> ray, depth |-> depth, sample_color |-> color])
    /\ sample' = sample + 1
    /\ pc' = "sample"
    /\ UNCHANGED << pixelRest, generator, ray, depth, frames, color, rendered,
                    hit_queries, lighting_calls >>

\* The loop is over: render_pixel returns scale * accumulated_color.
ReturnPixel ==
    /\ pc = "sample"
    /\ sample >= config.samples_per_pixel
    /\ color' = EVScale(sample_scale(config), accumulated_color)
    /\ pc' = "write"
    /\ UNCHANGED << pixelRest, generator, ray, depth, frames, sample,
                    accumulated_color, rendered, traced, hit_queries,
                    lighting_calls >>

\* write_color(image_data, pixel_color) and ++col.  The conversion of a
\* channel whose square root is not a number in the range of unsigned char
\* is undefined: the run is not followed past it.
WritePixel ==
    /\ pc = "write"
    /\ IF Convertible(color)
       THEN /\ image_buffer' \in write_color(image_buffer, color)
            /\ col' = col + 1
            /\ pc' = "pixel"
       ELSE /\ pc' = "undefined"
            /\ UNCHANGED << image_buffer, col >>
    /\ rendered' = Append(rendered,
                      [kind |-> "pixel", col |-> col, row |-> row,
                       pixel_color |-> color])
    /\ UNCHANGED << hitVars, scatterVars, lights, fuzz, generator, depth,
                    frames, color,
                    config, camera, max_depth, row, sample,
                    accumulated_color, traced, hit_queries, lighting_calls,
                    build, written_files, exit_code >>

NextRender ==
    \/ CallRenderImage
    \/ CallRenderPixel
    \/ TraceSample
    \/ CallCalculateRayColor
    \/ ReturnRayColor
    \/ AddSample
    \/ ReturnPixel
    \/ WritePixel
    \/ NextRow
    \/ ReturnImage

SpecRender ==
    InitRender /\ [][NextRender]_vars

\* The configuration is one the renderer cannot use.
InvalidConfig ==
    \/ config.image_width <= 0
    \/ config.image_height <= 0
    \/ config.samples_per_pixel <= 0

\* C12: handed a configuration whose image_width, image_height or
\* samples_per_pixel is zero or negative, the renderer renders nothing: no
\* ray is traced, no pixel is produced, and render_image does not return a
\* buffer the way a successful render does.
C12_InvalidConfigRendersNothing ==
    InvalidConfig =>
        /\ pc \notin {"call", "write", "returned"}
        /\ rendered = << >>
        /\ traced = << >>

\* C13: with image_width >= 1, image_height >= 1 and samples_per_pixel >= 1
\* every channel of the colour render_pixel hands to write_color, and so to
\* convert_to_byte, is a finite number.
C13_ChannelsAreFinite ==
    (/\ config.image_width >= 1
     /\ config.image_height >= 1
     /\ config.samples_per_pixel >= 1
     /\ pc = "write") => IsFiniteVec(color)

\* The sum of the first n colours of the traced rays, added in order.
RECURSIVE SampleSum(_)
SampleSum(n) ==
    IF n = 0 THEN ZeroVec
    ELSE EVAdd(SampleSum(n - 1), traced[n].sample_color)

\* The camera rays of pixel (col, row).
PixelRays ==
    {CameraRay(camera, config, col, row, rnd) : rnd \in PixelJitters}

\* C18: a call of render_pixel has traced one camera ray of its pixel per
\* pass of its loop, samples_per_pixel in all when it returns, each with
\* depth max_depth, and it returns the sum of their colours divided by
\* samples_per_pixel.
C18_PixelIsSampleMean ==
    /\ pc = "sample" => Len(traced) = sample
    /\ pc \in {"sample", "write"} =>
          \A i \in 1..Len(traced) :
             /\ traced[i].depth = max_depth
             /\ traced[i].ray \in PixelRays
    /\ (pc = "write" /\ config.samples_per_pixel >= 1) =>
          /\ Len(traced) = config.samples_per_pixel
          /\ color = Vec3(EDiv(SampleSum(Len(traced)).x,
                               I(config.samples_per_pixel)),
                          EDiv(SampleSum(Len(traced)).y,
                               I(config.samples_per_pixel)),
                          EDiv(SampleSum(Len(traced)).z,
                               I(config.samples_per_pixel)))

\* Two samples of one pixel of the matte wall, traced with depth 2 along
\* different rays, came back with different colours, and render_pixel
\* returns their mean.
C18_Witness ==
    /\ pc = "write"
    /\ config.samples_per_pixel = 2
    /\ max_depth = 2
    /\ Len(traced) = 2
    /\ traced[1].ray # traced[2].ray
    /\ traced[1].sample_color # traced[2].sample_color
    /\ IsFiniteVec(color)
    /\ color = VScale(R(1, 2), VAdd(traced[1].sample_color,
                                    traced[2].sample_color))

----------------------------------------------------------------------------
(* SpecReplay: render_image executed twice from the same generator state,  *)
(* with the same configuration, camera, scene and max_depth                *)

ReplayConfigs ==
    {[image_width |-> w, image_height |-> h, samples_per_pixel |-> 1,
      output_path |-> "render.png"] : w \in {1, 2}, h \in {1, 2}}

\* Two of the bytes an undefined conversion to unsigned char may give.
UndefinedOutcomes ==
    {0, 255}

\* The bytes convert_to_byte may return for a channel, an undefined
\* conversion giving one of UndefinedOutcomes.
ByteOutcomes(channel) ==
    IF IsFinite(channel) /\ channel.n >= 0
    THEN convert_to_byte_gamma(channel)
    ELSE UndefinedOutcomes

InitReplay ==
    /\ pc = "render"
    /\ config \in ReplayConfigs
    /\ camera = Camera(One)
    /\ max_depth \in RenderDepths
    /\ \E scene \in RenderScenes :
          /\ objects = scene.objects
          /\ lights = scene.lights
    /\ generator = FreshGenerator
    /\ ray = NoRay
    /\ min_distance = min_hit_distance
    /\ max_distance = max_hit_distance
    /\ record = DefaultHitRecord
    /\ hit_anything = FALSE
    /\ material = NullMaterial
    /\ scatter_record = DefaultScatterRecord
    /\ did_return = FALSE
    /\ draws = << >>
    /\ fuzz = Zero
    /\ depth = 0
    /\ frames = << >>
    /\ color = ZeroVec
    /\ image_buffer = << >>
    /\ row = 0
    /\ col = 0
    /\ sample = 0
    /\ accumulated_color = ZeroVec
    /\ rendered = << >>
    /\ traced = << >>
    /\ hit_queries = 0
    /\ lighting_calls = 0
    /\ build = "none"
    /\ written_files = << >>
    /\ exit_code = -1

\* The images render_image has returned so far.
ReturnedImages ==
    SelectSeq(rendered, LAMBDA entry : entry.kind = "image")

\* write_color on a colour whose conversion is undefined, and ++col: each
\* such channel becomes some byte.
ConvertUndefined ==
    /\ pc = "undefined"
    /\ image_buffer' \in
          {image_buffer \o <<red, green, blue>> :
              red \in ByteOutcomes(color.x), green \in ByteOutcomes(color.y),
              blue \in ByteOutcomes(color.z)}
    /\ col' = col + 1
    /\ pc' = "pixel"
    /\ UNCHANGED << hitVars, scatterVars, lights, fuzz, generator, depth,
                    frames, color, config, camera, max_depth, row, sample,
                    accumulated_color, rendered, traced, hit_queries,
                    lighting_calls, build, written_files, exit_code >>

\* The first execution has returned its image; render_image is called again
\* with the same arguments and the generator back in the state the first
\* execution began in.
RenderAgain ==
    /\ pc = "returned"
    /\ ReturnedImages = << >>
    /\ rendered' = Append(rendered,
                      [kind |-> "image", image_data |-> image_buffer])
    /\ generator' = [generator EXCEPT !.next = 1]
    /\ pc' = "render"
    /\ UNCHANGED << hitVars, scatterVars, lights, fuzz, depth, frames, color,
                    image_buffer, config, camera, max_depth, row, col, sample,
                    accumulated_color, traced, hit_queries, lighting_calls,
                    build, written_files, exit_code >>

NextReplay ==
    \/ NextRender
    \/ ConvertUndefined
    \/ RenderAgain

SpecReplay ==
    InitReplay /\ [][NextReplay]_vars

\* Both executions have returned.
BothReturned ==
    pc = "returned" /\ ReturnedImages # << >>

UndefinedPixels ==
    SelectSeq(rendered, LAMBDA entry :
        entry.kind = "pixel" /\ ~Convertible(entry.pixel_color))

\* The part of C25 that holds: two such executions in which every pixel
\* colour had a defined conversion return equal buffers, and the second
\* execution drew the same values in the same number.
C25_DefinedReplayIsByteIdentical ==
    (BothReturned /\ UndefinedPixels = << >>) =>
        /\ image_buffer = ReturnedImages[1].image_data
        /\ generator.next = Len(generator.returned) + 1

\* Both executions of a 2 x 2 render of the wall have returned the same
\* twelve bytes, after drawing jitters and scatter directions.
C25_AgreeingReplay ==
    /\ BothReturned
    /\ config.image_width = 2 /\ config.image_height = 2
    /\ objects # << >>
    /\ Len(generator.returned) > 8
    /\ Len(image_buffer) = 12
    /\ image_buffer = ReturnedImages[1].image_data

\* Both executions of a 1 x 1 render have returned, with different bytes for
\* the one pixel, whose colour is not a number.
C25_DifferingReplay ==
    /\ BothReturned
    /\ config.image_width = 1 /\ config.image_height = 1
    /\ UndefinedPixels # << >>
    /\ image_buffer # ReturnedImages[1].image_data

----------------------------------------------------------------------------
(* SpecPng: save_image and png_writer::write_rgb, from the arguments to    *)
(* the file                                                                *)

\* The greatest value of int.
IntMax ==
    2147483647

\* An unsigned 32-bit value, as its two 16-bit halves.
Word(n) ==
    [hi |-> n \div 65536, lo |-> n % 65536]

\* Addition and multiplication of 32-bit values, modulo 2^32.
AddWord(a, b) ==
    [hi |-> (a.hi + b.hi + (a.lo + b.lo) \div 65536) % 65536,
     lo |-> (a.lo + b.lo) % 65536]

\* A 32-bit value times a byte, and times 256.
TimesByte(a, k) ==
    [hi |-> (a.hi * k + (a.lo * k) \div 65536) % 65536,
     lo |-> (a.lo * k) % 65536]

ShiftByte(a) ==
    [hi |-> (a.hi * 256 + a.lo \div 256) % 65536,
     lo |-> (a.lo * 256) % 65536]

\* A 32-bit value times a positive int, byte by byte of the int.
TimesWord(a, n) ==
    AddWord(TimesByte(a, n % 256),
        ShiftByte(AddWord(TimesByte(a, (n \div 256) % 256),
            ShiftByte(AddWord(TimesByte(a, (n \div 65536) % 256),
                ShiftByte(TimesByte(a, n \div 16777216)))))))

\* The int expression width * height * 3 leaves the range of int, for
\* positive width and height.
product_overflows(width, height) ==
    IF width > IntMax \div height THEN TRUE
    ELSE width * height > IntMax \div 3

\* width * height * 3 reduced modulo 2^32, what the multiplication
\* instructions leave in the register.
wrapped_product(width, height) ==
    TimesWord(TimesWord(Word(width), height), 3)

\* static_cast<std::size_t>(product) != rgb.size() is false: the 32-bit
\* value read as an int is sign-extended to 64 bits, so a value with the
\* top bit set equals no size of a vector of bytes.
size_matches(product, size) ==
    /\ product.hi < 32768
    /\ product.hi = size \div 65536
    /\ product.lo = size % 65536

\* png_writer::write_rgb gets past its test of the arguments: the outcomes
\* a build can produce.  A product that overflows is undefined; the build
\* either compares the wrapped 32-bit value or, having widened the
\* multiplication, a product greater than every size.
write_rgb_accepts(width, height, rgb) ==
    IF width <= 0 \/ height <= 0 THEN {FALSE}
    ELSE IF product_overflows(width, height)
    THEN {size_matches(wrapped_product(width, height), Len(rgb)), FALSE}
    ELSE {width * height * 3 = Len(rgb)}

\* The loop over the rows stays inside the buffer: it reads height rows of
\* width * 3 bytes.
buffer_holds_rows(width, height, rgb) ==
    /\ width > 0
    /\ height > 0
    /\ ~product_overflows(width, height)
    /\ width * height * 3 = Len(rgb)

\* The 13 bytes of the IHDR chunk.
ihdr_data(width, height) ==
    << (width \div 16777216) % 256, (width \div 65536) % 256,
       (width \div 256) % 256, width % 256,
       (height \div 16777216) % 256, (height \div 65536) % 256,
       (height \div 256) % 256, height % 256,
       8, 2, 0, 0, 0 >>

\* The rows of the image from row y on, each behind its filter byte 0.
RECURSIVE scanlines(_, _, _, _)
scanlines(rgb, row_stride, y, height) ==
    IF y < height
    THEN << 0 >> \o SubSeq(rgb, y * row_stride + 1, (y + 1) * row_stride)
             \o scanlines(rgb, row_stride, y + 1, height)
    ELSE << >>

MOD_ADLER ==
    65521

\* x * y modulo MOD_ADLER for x and y below it.
TimesModAdler(x, y) ==
    (((x * (y \div 256)) % MOD_ADLER) * 256 + x * (y % 256)) % MOD_ADLER

\* Of data[first..last]: the sum of the bytes, and the sum of every byte
\* times the number of bytes from it to the last, both modulo MOD_ADLER.
AdlerCombine(left, right, right_size) ==
    [sum |-> (left.sum + right.sum) % MOD_ADLER,
     weighted |-> (left.weighted + right.weighted
                   + TimesModAdler(left.sum, right_size % MOD_ADLER))
                  % MOD_ADLER]

RECURSIVE AdlerSums(_, _, _)
AdlerSums(data, first, last) ==
    IF first = last
    THEN [sum |-> data[first], weighted |-> data[first]]
    ELSE AdlerCombine(AdlerSums(data, first, (first + last) \div 2),
                      AdlerSums(data, (first + last) \div 2 + 1, last),
                      last - (first + last) \div 2)

\* adler32: a is one more than the sum of the bytes and b the sum of the
\* values a takes, both reduced at every byte.
adler32(data) ==
    IF data = << >> THEN [b |-> 0, a |-> 1]
    ELSE [b |-> (Len(data) + AdlerSums(data, 1, Len(data)).weighted)
                    % MOD_ADLER,
          a |-> (1 + AdlerSums(data, 1, Len(data)).sum) % MOD_ADLER]

max_block_size ==
    65535

\* A mutation of append_uncompressed_block: NLEN repeats LEN.
append_uncompressed_block_plain_nlen(out, data, bfinal) ==
    out \o << IF bfinal THEN 1 ELSE 0,
              Len(data) % 256, (Len(data) \div 256) % 256,
              Len(data) % 256, (Len(data) \div 256) % 256 >>
        \o data

\* append_uncompressed_block: the final-block flag, LEN and its complement
\* NLEN as 16-bit values, low byte first, then the bytes of the block.
append_uncompressed_block(out, data, bfinal) ==
    out \o << IF bfinal THEN 1 ELSE 0,
              (Len(data) % 65536) % 256, (Len(data) % 65536) \div 256,
              (65535 - (Len(data) % 65536)) % 256,
              (65535 - (Len(data) % 65536)) \div 256 >>
        \o data

chunk_size(raw, offset) ==
    IF Len(raw) - offset > max_block_size
    THEN max_block_size
    ELSE Len(raw) - offset

\* The loop of make_zlib_stream from offset on.
RECURSIVE stored_blocks(_, _, _)
stored_blocks(zlib_data, raw, offset) ==
    IF offset < Len(raw)
    THEN stored_blocks(
            append_uncompressed_block(zlib_data,
                SubSeq(raw, offset + 1, offset + chunk_size(raw, offset)),
                offset + chunk_size(raw, offset) >= Len(raw)),
            raw, offset + chunk_size(raw, offset))
    ELSE zlib_data

\* make_zlib_stream: the two header bytes, the stored blocks and the
\* Adler-32 of the input, high byte first.
make_zlib_stream(raw) ==
    stored_blocks(<< 120, 1 >>, raw, 0)
        \o << adler32(raw).b \div 256, adler32(raw).b % 256,
              adler32(raw).a \div 256, adler32(raw).a % 256 >>

\* The bytes of an image buffer of the given size.
ImageBytes(size) ==
    SubSeq([i \in 1..size |-> (i * 37) % 256], 1, size)

\* In this specification a std::vector<unsigned char> is held in the state
\* as its consecutive pages of PageSize bytes, the last one shorter; Flat
\* gives the vector back.
PageSize ==
    4096

Pages(bytes) ==
    [p \in 1..((Len(bytes) + PageSize - 1) \div PageSize) |->
        SubSeq(bytes, (p - 1) * PageSize + 1,
               IF p * PageSize < Len(bytes) THEN p * PageSize
               ELSE Len(bytes))]

RECURSIVE Flat(_)
Flat(pages) ==
    IF pages = << >> THEN << >>
    ELSE Head(pages) \o Flat(Tail(pages))

PngSides ==
    {-1, 0, 1, 2, 3, 65536, 1431655766, IntMax}

PngSizes ==
    {0, 1, 2, 3, 6, 12}

\* Images whose scanlines fill one block, one block and a byte, two
\* blocks, and two blocks and a byte.
LargeImages ==
    {[image_width |-> 1456, image_height |-> 15],
     [image_width |-> 21845, image_height |-> 1],
     [image_width |-> 1456, image_height |-> 30],
     [image_width |-> 43690, image_height |-> 1]}

PngCalls ==
    {[image_width |-> w, image_height |-> h, size |-> n] :
        w \in PngSides, h \in PngSides, n \in PngSizes}
    \cup {[image_width |-> image.image_width,
           image_height |-> image.image_height,
           size |-> image.image_width * image.image_height * 3] :
            image \in LargeImages}

InitPng ==
    /\ pc = "save"
    /\ build = "Raytracing"
    /\ HitIdle
    /\ ScatterIdle
    /\ lights = << >>
    /\ depth = 0
    /\ frames = << >>
    /\ color = ZeroVec
    /\ \E call \in PngCalls :
          /\ config = [image_width |-> call.image_width,
                       image_height |-> call.image_height,
                       samples_per_pixel |-> 1,
                       output_path |-> "render.png"]
          /\ image_buffer = Pages(ImageBytes(call.size))
    /\ camera = NoCamera
    /\ max_depth = 0
    /\ row = 0
    /\ col = 0
    /\ sample = 0
    /\ accumulated_color = ZeroVec
    /\ rendered = << >>
    /\ traced = << >>
    /\ hit_queries = 0
    /\ lighting_calls = 0
    /\ written_files = << >>
    /\ exit_code = -1

\* The file write_rgb leaves behind once the stream has opened: complete
\* when the buffer holds the rows it reads; when the test let a shorter
\* buffer through, the rows are read from behind its end, which is
\* undefined, and of the file only the header is known.
PngFile(path, width, height, rgb, complete) ==
    [path |-> path,
     ihdr |-> ihdr_data(width, height),
     idat |-> IF complete
              THEN Pages(make_zlib_stream(
                            scanlines(rgb, width * 3, 0, height)))
              ELSE << >>]

\* save_image(config.output_path, config, image_data), that is write_rgb:
\* the test of the arguments, the opening of the stream, the chunks.
CallSaveImage ==
    /\ pc = "save"
    /\ \E accepted \in write_rgb_accepts(config.image_width,
                           config.image_height, Flat(image_buffer)),
          opens \in BOOLEAN,
          complete \in {buffer_holds_rows(config.image_width,
                           config.image_height, Flat(image_buffer))} :
          /\ pc' = IF ~accepted THEN "rejected"
                   ELSE IF ~opens THEN "unopened"
                   ELSE IF complete THEN "written"
                   ELSE "undefined"
          /\ written_files' =
                IF accepted /\ opens
                THEN Append(written_files,
                        PngFile(config.output_path, config.image_width,
                                config.image_height, Flat(image_buffer),
                                complete))
                ELSE written_files
    /\ UNCHANGED << hitVars, scatterVars, lights, fuzz, generator, depth,
                    frames, color,
                    image_buffer, config, camera, max_depth, row, col, sample,
                    accumulated_color, rendered, traced, hit_queries,
                    lighting_calls, build, exit_code >>

NextPng ==
    CallSaveImage

SpecPng ==
    InitPng /\ [][NextPng]_vars

\* The buffer has width x height x 3 bytes, the product taken in the
\* integers.
TrueProductIs(width, height, size) ==
    /\ width <= size
    /\ height <= size \div width
    /\ width * height * 3 = size

WrongArguments ==
    IF config.image_width <= 0 \/ config.image_height <= 0 THEN TRUE
    ELSE ~TrueProductIs(config.image_width, config.image_height,
                        Len(Flat(image_buffer)))

\* C29: write_rgb returns false before it opens a file whenever the width
\* or the height is not positive or the size of the buffer differs from
\* the true product width x height x 3, for every width and height of 32
\* bits.
C29_WrongSizeNeverAccepted ==
    (pc # "save" /\ WrongArguments) =>
        (pc = "rejected" /\ written_files = << >>)

\* As long as width * height * 3 stays in the range of int, wrong arguments
\* are turned down before a file is opened, and a file that was written
\* holds a buffer of the true size.
C29_WrongSizeRejectedInRange ==
    /\ (/\ pc # "save"
        /\ WrongArguments
        /\ IF config.image_width <= 0 \/ config.image_height <= 0 THEN TRUE
           ELSE ~product_overflows(config.image_width, config.image_height))
            => (pc = "rejected" /\ written_files = << >>)
    /\ pc = "written" => ~WrongArguments
    /\ pc = "undefined" =>
          product_overflows(config.image_width, config.image_height)

\* write_rgb was called with width 65536, height 65536 and an empty
\* buffer; the wrapped product 0 equalled the size, the file was opened and
\* the loop over the rows reads from behind the buffer.
C29_WrappedProductAccepted ==
    /\ pc = "undefined"
    /\ config.image_width = 65536
    /\ config.image_height = 65536
    /\ image_buffer = << >>
    /\ Len(written_files) = 1

\* The stored blocks of a zlib stream from position first on, up to the four
\* bytes of the checksum.
RECURSIVE BlocksFrom(_, _)
BlocksFrom(stream, first) ==
    IF first + 4 > Len(stream) - 4 THEN << >>
    ELSE LET len == stream[first + 1] + 256 * stream[first + 2]
         IN  << [bfinal |-> stream[first],
                 len |-> len,
                 nlen |-> stream[first + 3] + 256 * stream[first + 4],
                 payload |-> SubSeq(stream, first + 5, first + 4 + len)] >>
             \o BlocksFrom(stream, first + 5 + len)

RECURSIVE Payloads(_)
Payloads(blocks) ==
    IF blocks = << >> THEN << >>
    ELSE Head(blocks).payload \o Payloads(Tail(blocks))

\* C30: make_zlib_stream splits a non-empty input into stored blocks of at
\* most 65535 bytes whose payloads, in order, make up the input; the last
\* block and no other carries the final-block flag, and NLEN is the 16-bit
\* complement of LEN in every block.
C30_StoredBlocksCoverInput ==
    pc = "written" =>
        LET raw == scanlines(Flat(image_buffer), config.image_width * 3, 0,
                             config.image_height)
            blocks == BlocksFrom(Flat(written_files[1].idat), 3)
        IN  /\ raw # << >>
            /\ Len(blocks) >= 1
            /\ Len(blocks) = (Len(raw) + 65534) \div 65535
            /\ \A i \in 1..Len(blocks) :
                  /\ Len(blocks[i].payload) = blocks[i].len
                  /\ blocks[i].len >= 1
                  /\ blocks[i].len <= 65535
                  /\ blocks[i].nlen = 65535 - blocks[i].len
                  /\ blocks[i].bfinal = IF i = Len(blocks) THEN 1 ELSE 0
            /\ Payloads(blocks) = raw

\* An image whose scanlines take two full blocks and one more byte has been
\* written.
C30_Witness ==
    /\ pc = "written"
    /\ config.image_width = 43690
    /\ config.image_height = 1
    /\ Len(Flat(written_files[1].idat)) = 2 + 3 * 5 + 131071 + 4

----------------------------------------------------------------------------
(* SpecMain: main of the two programs, from the configuration to the exit  *)
(* code                                                                    *)

\* std::setfill('0') << std::setw(2) << n and std::setw(4) << n: the decimal
\* digits of n, with zeros in front up to the width.
SetW2(n) ==
    IF n < 10 THEN "0" \o ToString(n) ELSE ToString(n)

SetW4(n) ==
    IF n < 10 THEN "000" \o ToString(n)
    ELSE IF n < 100 THEN "00" \o ToString(n)
    ELSE IF n < 1000 THEN "0" \o ToString(n)
    ELSE ToString(n)

\* generate_filename(config, max_depth), local_time the broken-down time
\* std::localtime returns.
generate_filename(cfg, depth_limit, local_time) ==
    "render_" \o ToString(cfg.image_width) \o "x" \o ToString(cfg.image_height)
        \o "_" \o ToString(cfg.samples_per_pixel) \o "samples_"
        \o ToString(depth_limit) \o "depth_"
        \o SetW4(local_time.tm_year + 1900) \o SetW2(local_time.tm_mon + 1)
        \o SetW2(local_time.tm_mday) \o "_" \o SetW2(local_time.tm_hour)
        \o SetW2(local_time.tm_min) \o SetW2(local_time.tm_sec) \o ".png"

\* The name main hands to save_image: the configured path in
\* Raytracing_simple, the generated name in Raytracing.
output_filename(program, cfg, depth_limit, local_time) ==
    IF program = "Raytracing"
    THEN generate_filename(cfg, depth_limit, local_time)
    ELSE cfg.output_path

Programs ==
    {"Raytracing", "Raytracing_simple"}

\* The times at which a run reaches generate_filename.
LocalTimes ==
    {[tm_year |-> 125, tm_mon |-> 10, tm_mday |-> 2, tm_hour |-> 14,
      tm_min |-> 30, tm_sec |-> 27],
     [tm_year |-> 126, tm_mon |-> 0, tm_mday |-> 31, tm_hour |-> 0,
      tm_min |-> 5, tm_sec |-> 9]}

InitMain ==
    /\ pc = "main"
    /\ build \in Programs
    /\ HitIdle
    /\ ScatterIdle
    /\ lights = << >>
    /\ depth = 0
    /\ frames = << >>
    /\ color = ZeroVec
    /\ image_buffer = << >>
    /\ config = NoConfig
    /\ camera = NoCamera
    /\ max_depth = 0
    /\ row = 0
    /\ col = 0
    /\ sample = 0
    /\ accumulated_color = ZeroVec
    /\ rendered = << >>
    /\ traced = << >>
    /\ hit_queries = 0
    /\ lighting_calls = 0
    /\ written_files = << >>
    /\ exit_code = -1

\* main up to the call of render_image: the configuration, with a small
\* width in place of 1024 and 600 and one sample in place of 500, the depth
\* limit and the camera.
CallMain ==
    /\ pc = "main"
    /\ \E ratio \in AspectRatios, width \in 1..MaxWidth :
          /\ config' = RenderConfig(ratio, width, 1)
          /\ camera' = Camera(ratio)
    /\ max_depth' = IF build = "Raytracing" THEN 100 ELSE 50
    /\ pc' = "render"
    /\ UNCHANGED << hitVars, scatterVars, lights, fuzz, generator, depth,
                    frames, color,
                    image_buffer, row, col, sample, accumulated_color,
                    rendered, traced, hit_queries, lighting_calls, build,
                    written_files, exit_code >>

\* main after render_image has returned: the file name, save_image and the
\* exit code.  The file is written when write_rgb accepts its arguments and
\* the stream opens.
SaveImage ==
    /\ pc = "returned"
    /\ build \in Programs
    /\ \E local_time \in LocalTimes, opens \in BOOLEAN :
       \E accepted \in write_rgb_accepts(config.image_width,
                           config.image_height, image_buffer) :
       \E success \in {opens /\ accepted} :
          /\ written_files' =
                IF success
                THEN Append(written_files,
                        [path |-> output_filename(build, config, max_depth,
                                                  local_time),
                         width |-> config.image_width,
                         height |-> config.image_height,
                         rgb |-> image_buffer])
                ELSE written_files
          /\ exit_code' = IF success THEN 0 ELSE 1
    /\ pc' = "exit"
    /\ UNCHANGED << hitVars, scatterVars, lights, fuzz, generator, depth,
                    frames, color,
                    image_buffer, config, camera, max_depth, row, col, sample,
                    accumulated_color, rendered, traced, hit_queries,
                    lighting_calls, build >>

NextMain ==
    \/ CallMain
    \/ CallRenderImage
    \/ RenderNextPixel
    \/ NextRow
    \/ ReturnImage
    \/ SaveImage

SpecMain ==
    InitMain /\ [][NextMain]_vars

\* C16: a run that succeeds has written the rendered PNG to the path held
\* in RenderConfig::output_path, which is render.png.
C16_SavedToOutputPath ==
    (pc = "exit" /\ exit_code = 0) =>
        /\ config.output_path = "render.png"
        /\ Len(written_files) = 1
        /\ written_files[1].path = config.output_path
        /\ written_files[1].rgb = image_buffer

============================================================================
